---- MODULE Spec2Model ----
(***************************************************************************)
(* A model of the RAG chat service: the in-memory store (MemStorage), the  *)
(* text chunker, the RAG orchestrator (indexDocument, queryRAG,            *)
(* queryRAGStream, getIndexStats) and the HTTP handlers of registerRoutes. *)
(*                                                                         *)
(* Texts are sequences of one-character strings, so that slicing,          *)
(* splitting and per-character iteration are computed as the code computes *)
(* them.  An optional or nullable value is a sequence of length 0 or 1     *)
(* (None / Some(x)).                                                       *)
(*                                                                         *)
(* The server is one Node.js process: a handler runs without interruption  *)
(* from one completed I/O operation (an arriving request, a provider or    *)
(* drive response, an arriving stream delta) to the next I/O operation it  *)
(* awaits.  The storage methods are async functions that await nothing, so *)
(* they complete inside the step that calls them.  Each action below is    *)
(* one such run-to-completion step of one request.                         *)
(***************************************************************************)
EXTENDS Integers, Sequences, FiniteSets, TLC

\* ------------------------------------------------------------------------
\* Bounds of the model
\* ------------------------------------------------------------------------
MaxReq == 2        \* requests served in one behaviour
MaxTokens == 2     \* content deltas a completion stream delivers at most
MaxClock == 1      \* milliseconds the clock may advance
MaxCalls == 4      \* direct storage calls in one behaviour (StoreSpec)

Requests == 1..MaxReq

\* ------------------------------------------------------------------------
\* Optional values and texts
\* ------------------------------------------------------------------------
None == <<>>
Some(x) == <<x>>

Min(a, b) == IF a <= b THEN a ELSE b
Max(a, b) == IF a >= b THEN a ELSE b

\* n copies of the character c
Rep(c, n) == [i \in 1..n |-> c]

\* the index slice counts from for an argument k: a negative k counts from
\* the end, and an index stays within the length
SliceIndex(s, k) == IF k < 0 THEN Max(Len(s) + k, 0) ELSE Min(k, Len(s))

\* slice(start, end) of a string or an array, for any integers
Slice(s, start, end) == SubSeq(s, SliceIndex(s, start) + 1, SliceIndex(s, end))

\* String.prototype.slice(start) for any integer start: a negative start
\* counts from the end, and -0 is 0
SliceFrom(s, start) ==
    LET from == IF start < 0 THEN Max(Len(s) + start, 0) ELSE Min(start, Len(s))
    IN  SubSeq(s, from + 1, Len(s))

\* A text is the sequence of its UTF-16 code units, as String.length counts
\* them.  A code unit below U+0080 is the string of that one character; any
\* other code unit is the string of its name, "U+" and its four hexadecimal
\* digits in capitals: <<"a", "U+00E9">> is the text of length 2 that ends
\* in e with an acute accent.
\*
\* The white space of JavaScript (\s of a regular expression, and trim):
\* space, line feed, tab, carriage return, form feed, U+000B (written as the
\* character itself), the no-break space U+00A0, U+1680, U+2000 to U+200A,
\* the line and paragraph separators U+2028 and U+2029, U+202F, U+205F,
\* U+3000 and the byte order mark U+FEFF.
WhiteSpace ==
    {" ", "\n", "\t", "\r", "\f", "", "U+00A0", "U+1680", "U+2000",
     "U+2001", "U+2002", "U+2003", "U+2004", "U+2005", "U+2006", "U+2007",
     "U+2008", "U+2009", "U+200A", "U+2028", "U+2029", "U+202F", "U+205F",
     "U+3000", "U+FEFF"}

IsSpace(c) == c \in WhiteSpace
IsPunct(c) == c \in {".", "!", "?"}

\* String.prototype.trim
Trim(s) ==
    IF \A i \in 1..Len(s) : IsSpace(s[i]) THEN <<>>
    ELSE LET n == Len(s)
             lo == CHOOSE i \in 1..n :
                     ~IsSpace(s[i]) /\ \A j \in 1..(i - 1) : IsSpace(s[j])
             cut == CHOOSE k \in 0..(n - 1) :
                     ~IsSpace(s[n - k]) /\ \A j \in (n - k + 1)..n : IsSpace(s[j])
         IN  SubSeq(s, lo, n - cut)

\* the elements of a finite set of integers in ascending order
RECURSIVE Ascending(_)
Ascending(S) ==
    IF S = {} THEN <<>>
    ELSE LET m == CHOOSE x \in S : \A y \in S : x <= y
         IN  <<m>> \o Ascending(S \ {m})

\* ------------------------------------------------------------------------
\* Text chunker (documentProcessor)
\* ------------------------------------------------------------------------
DefaultChunkSize == 1000
DefaultOverlap == 200
MinChunkLength == 50

\* the last index of the run of terminators [.!?]+ that starts at i
PunctRunEnd(t, i) ==
    CHOOSE j \in i..Len(t) :
        /\ \A k \in i..j : IsPunct(t[k])
        /\ (j = Len(t) \/ ~IsPunct(t[j + 1]))

\* the last index of the run of whitespace \s+ that starts at i
SpaceRunEnd(t, i) ==
    CHOOSE j \in i..Len(t) :
        /\ \A k \in i..j : IsSpace(t[k])
        /\ (j = Len(t) \/ ~IsSpace(t[j + 1]))

\* the first indices of the matches of /[.!?]+\s+/ in t: a maximal run of
\* terminators that is followed by whitespace
MatchStarts(t) ==
    {i \in 1..Len(t) :
        /\ IsPunct(t[i])
        /\ (i = 1 \/ ~IsPunct(t[i - 1]))
        /\ LET j == PunctRunEnd(t, i)
           IN  j < Len(t) /\ IsSpace(t[j + 1])}

\* the last index of the match that starts at i
MatchEnd(t, i) == SpaceRunEnd(t, PunctRunEnd(t, i) + 1)

\* text.split(/[.!?]+\s+/): the pieces between the matches, empty ones kept
SplitSentences(t) ==
    LET starts == Ascending(MatchStarts(t))
        m == Len(starts)
    IN  [p \in 1..(m + 1) |->
            SubSeq(t,
                   IF p = 1 THEN 1 ELSE MatchEnd(t, starts[p - 1]) + 1,
                   IF p = m + 1 THEN Len(t) ELSE starts[p] - 1)]

\* the locals of chunkText before its loop: no chunk, an empty buffer
NoChunks == [chunks |-> <<>>, currentChunk |-> <<>>]

\* ChunkIteration that, when the buffer overflows, seeds the next buffer with
\* the overlap alone and loses the sentence
ChunkIterationDropsSentence(st, sentence, chunkSize, overlap) ==
    LET trimmedSentence == Trim(sentence) IN
    IF trimmedSentence = <<>> THEN st
    ELSE IF Len(st.currentChunk) + Len(trimmedSentence) > chunkSize
    THEN IF st.currentChunk # <<>>
         THEN [chunks |-> Append(st.chunks, Trim(st.currentChunk)),
               currentChunk |-> SliceFrom(st.currentChunk, 0 - overlap)]
         ELSE [chunks |-> Append(st.chunks, trimmedSentence),
               currentChunk |-> <<>>]
    ELSE [chunks |-> st.chunks,
          currentChunk |->
             st.currentChunk
                \o (IF st.currentChunk # <<>> THEN <<" ">> ELSE <<>>)
                \o trimmedSentence]

\* one iteration of the for loop of chunkText: the locals after the sentence
ChunkIteration(st, sentence, chunkSize, overlap) ==
    LET trimmedSentence == Trim(sentence) IN
    IF trimmedSentence = <<>> THEN st
    ELSE IF Len(st.currentChunk) + Len(trimmedSentence) > chunkSize
    THEN IF st.currentChunk # <<>>
         THEN LET previousChunk == SliceFrom(st.currentChunk, 0 - overlap)
              IN  [chunks |-> Append(st.chunks, Trim(st.currentChunk)),
                   currentChunk |->
                      previousChunk \o <<" ">> \o trimmedSentence]
         ELSE [chunks |-> Append(st.chunks, trimmedSentence),
               currentChunk |-> <<>>]
    ELSE [chunks |-> st.chunks,
          currentChunk |->
             st.currentChunk
                \o (IF st.currentChunk # <<>> THEN <<" ">> ELSE <<>>)
                \o trimmedSentence]

\* the for loop of chunkText from sentence i on: the locals once it is over
RECURSIVE ChunkLoop(_, _, _, _, _)
ChunkLoop(sentences, i, st, chunkSize, overlap) ==
    IF i > Len(sentences) THEN st
    ELSE ChunkLoop(sentences, i + 1,
                   ChunkIteration(st, sentences[i], chunkSize, overlap),
                   chunkSize, overlap)

LongEnough(chunk) == Len(chunk) > MinChunkLength

\* the end of chunkText: the last buffer is pushed unless it is blank, and the
\* chunks of at most 50 characters are filtered out
ClosedChunks(st) ==
    IF Trim(st.currentChunk) # <<>>
    THEN Append(st.chunks, Trim(st.currentChunk))
    ELSE st.chunks

ChunkReturn(st) == SelectSeq(ClosedChunks(st), LongEnough)

chunkText(text, chunkSize, overlap) ==
    ChunkReturn(ChunkLoop(SplitSentences(text), 1, NoChunks, chunkSize, overlap))

\* content.replace(/\s+/g, ' ') on t[lo..hi]: every run of whitespace becomes
\* one space (computed by halving the range)
RECURSIVE CollapseRange(_, _, _)
CollapseRange(t, lo, hi) ==
    IF lo > hi THEN <<>>
    ELSE IF lo = hi
    THEN IF ~IsSpace(t[lo]) THEN <<t[lo]>>
         ELSE IF lo > 1 /\ IsSpace(t[lo - 1]) THEN <<>> ELSE <<" ">>
    ELSE LET mid == (lo + hi) \div 2
         IN  CollapseRange(t, lo, mid) \o CollapseRange(t, mid + 1, hi)

\* the clean-up of processDocument: whitespace runs to one space, then
\* /\n{3,}/g (which finds nothing, no newline being left), then trim
CleanUp(t) == Trim(CollapseRange(t, 1, Len(t)))

\* ------------------------------------------------------------------------
\* Identifiers
\* ------------------------------------------------------------------------
\* An id is an integer: n > 0 is the n-th value randomUUID returned in this
\* process, EmptyId is the empty string, GhostId a string randomUUID never
\* returned.
EmptyId == 0
GhostId == 0 - 1

\* ------------------------------------------------------------------------
\* MemStorage: the three maps, each in insertion order
\* ------------------------------------------------------------------------
\* createMessage: the stored map and the record returned
createMessage(msgs, insertMessage, id, now) ==
    Append(msgs, [id |-> id,
                  conversationId |-> insertMessage.conversationId,
                  role |-> insertMessage.role,
                  content |-> insertMessage.content,
                  citations |-> insertMessage.citations,
                  timestamp |-> now])

\* a conversation map is a function from its keys to the records held
createConversation(convs, insertConversation, id, now) ==
    [k \in DOMAIN convs \cup {id} |->
        IF k = id
        THEN [id |-> id, title |-> insertConversation.title,
              createdAt |-> now, updatedAt |-> now]
        ELSE convs[k]]

getConversation(convs, id) ==
    IF id \in DOMAIN convs THEN Some(convs[id]) ELSE None

\* { ...existing, ...data, updatedAt: new Date() }: data is a partial record
Merge(existing, data, now) ==
    [f \in DOMAIN existing |->
        IF f = "updatedAt" THEN now
        ELSE IF f \in DOMAIN data THEN data[f]
        ELSE existing[f]]

updateConversationThrows(convs, id) == id \notin DOMAIN convs

\* updateConversation that creates the conversation it does not find
updateConversationUpsert(convs, id, data, now) ==
    [k \in DOMAIN convs \cup {id} |->
        IF k \in DOMAIN convs /\ k # id THEN convs[k]
        ELSE IF k \in DOMAIN convs THEN Merge(convs[k], data, now)
        ELSE [id |-> id, title |-> None, createdAt |-> now, updatedAt |-> now]]

updateConversation(convs, id, data, now) ==
    IF updateConversationThrows(convs, id) THEN convs
    ELSE [convs EXCEPT ![id] = Merge(convs[id], data, now)]

createDocumentChunk(chunks, insertChunk, id) ==
    Append(chunks, [id |-> id,
                    documentId |-> insertChunk.documentId,
                    content |-> insertChunk.content,
                    embedding |-> insertChunk.embedding,
                    metadata |-> insertChunk.metadata,
                    chunkIndex |-> insertChunk.chunkIndex])

getAllChunks(chunks) == chunks

\* ------------------------------------------------------------------------
\* Similarity search
\* ------------------------------------------------------------------------
RECURSIVE SumTo(_, _)
SumTo(f, n) == IF n = 0 THEN 0 ELSE f[n] + SumTo(f, n - 1)

\* A similarity is kept as the three integers the loop of cosineSimilarity
\* ends with, and stands for the double
\* dotProduct / (Math.sqrt(normA) * Math.sqrt(normB)).  The components of the
\* model's vectors are integers, so the three sums are exact.  `return 0` is
\* the similarity with dotProduct 0.
ZeroSimilarity == [dotProduct |-> 0, normA |-> 1, normB |-> 1]

\* cosineSimilarity without the test of the lengths, over the dimensions the
\* two vectors share
cosineSimilarityCommonPrefix(a, b) ==
    LET n == Min(Len(a), Len(b))
        dotProduct == SumTo([i \in 1..n |-> a[i] * b[i]], n)
        normA == SumTo([i \in 1..n |-> a[i] * a[i]], n)
        normB == SumTo([i \in 1..n |-> b[i] * b[i]], n)
    IN  IF normA = 0 \/ normB = 0 THEN ZeroSimilarity
        ELSE [dotProduct |-> dotProduct, normA |-> normA, normB |-> normB]

cosineSimilarity(a, b) ==
    IF Len(a) # Len(b) THEN ZeroSimilarity
    ELSE LET dotProduct == SumTo([i \in 1..Len(a) |-> a[i] * b[i]], Len(a))
             normA == SumTo([i \in 1..Len(a) |-> a[i] * a[i]], Len(a))
             normB == SumTo([i \in 1..Len(a) |-> b[i] * b[i]], Len(a))
         IN  IF normA = 0 \/ normB = 0 THEN ZeroSimilarity
             ELSE [dotProduct |-> dotProduct, normA |-> normA,
                   normB |-> normB]

\* ------------------------------------------------------------------------
\* The arithmetic of doubles (IEEE 754 binary64, round to nearest, ties to
\* even) that Math.sqrt, * and / do.  A positive double is [m, e], the number
\* m * 2^e with 2^52 <= m < 2^53; m and the numbers it is computed from are
\* kept as Limbs digits to the base Base, lowest first.
\* ------------------------------------------------------------------------
Mantissa == 53     \* the binary digits of the significand of a double
Base == 8192       \* 2^13: a product of two digits is below 2^31
Limbs == 10        \* 130 binary digits: twice 65, for a product of two doubles

\* the largest k with 2^k <= n, for 1 <= n < 2^31
Log2(n) == CHOOSE k \in 0..30 : n \div (2^k) = 1

\* the Limbs digits f[1], f[2], ... as a sequence
Number(f) == f \o <<>>

BigZero == Number([i \in 1..Limbs |-> 0])

\* the integer n, 0 <= n < 2^31
BigOfInt(n) ==
    Number([i \in 1..Limbs |->
               IF i <= 3 THEN (n \div (Base^(i - 1))) % Base ELSE 0])

\* the sum of the digits below digit i of x and of y carries into digit i: a
\* pair of digits overflows, and every pair between it and digit i passes
\* the carry on
CarryInto(x, y, i) ==
    \E j \in 1..(i - 1) :
       /\ x[j] + y[j] >= Base
       /\ \A k \in (j + 1)..(i - 1) : x[k] + y[k] = Base - 1

\* x + y, for a sum below Base^Limbs
BigAdd(x, y) ==
    Number([i \in 1..Limbs |->
               (x[i] + y[i] + (IF CarryInto(x, y, i) THEN 1 ELSE 0)) % Base])

\* digit i of the number made of the part of each digit sum in cols that
\* belongs `up' digits higher
Part(cols, up, i) ==
    IF i > up THEN (cols[i - up] \div (Base^up)) % Base ELSE 0

\* the number, below Base^Limbs, whose digit sums, each below Base^3, are
\* cols: the sum of the three numbers the digit sums split into
Carried(cols) ==
    BigAdd(BigAdd(Number([i \in 1..Limbs |-> Part(cols, 0, i)]),
                  Number([i \in 1..Limbs |-> Part(cols, 1, i)])),
           Number([i \in 1..Limbs |-> Part(cols, 2, i)]))

Digits(cols) == Carried(Number(cols))

\* x + 2^k, for x whose binary digit k is 0
BigSetBit(x, k) == [x EXCEPT ![(k \div 13) + 1] = @ + 2^(k % 13)]

\* 2^k
BigTwoTo(k) == BigSetBit(BigZero, k)

\* x * 2^k, for a product below Base^Limbs
BigShift(x, k) ==
    Digits([i \in 1..Limbs |->
               IF i > k \div 13 THEN x[i - (k \div 13)] * 2^(k % 13) ELSE 0])

\* x * y, for x and y below Base^(Limbs / 2): digit sum k is the sum of the
\* products x[j] * y[k + 1 - j] of digits among the lower half
BigMul(x, y) ==
    Digits([k \in 1..Limbs |->
               SumTo([j \in 1..Min(k, Limbs \div 2) |->
                         IF k + 1 - j <= Limbs \div 2
                         THEN x[j] * y[k + 1 - j] ELSE 0],
                     Min(k, Limbs \div 2))])

\* x < y
BigLess(x, y) ==
    \E i \in 1..Limbs :
       x[i] < y[i] /\ \A j \in (i + 1)..Limbs : x[j] = y[j]

\* the integer part of x / 2
BigHalf(x) ==
    Number([i \in 1..Limbs |->
               (x[i] \div 2)
                 + (IF i < Limbs /\ x[i + 1] % 2 = 1 THEN Base \div 2 ELSE 0)])

\* x + 1
BigSucc(x) == BigAdd(x, BigOfInt(1))

\* q * den, or q * q when square
Product(q, den, square) == IF square THEN BigMul(q, q) ELSE BigMul(q, den)

RECURSIVE Largest(_, _, _, _, _, _)
\* the largest number q + j, j a sum of powers 2^lo..2^hi, with
\* (q + j) * den <= n, or with (q + j)^2 <= n when square: the integer part
\* of a quotient, or of a square root, found one binary digit at a step from
\* digit hi down to digit lo
Largest(q, hi, lo, den, square, n) ==
    IF hi = lo
    THEN IF BigLess(n, Product(BigSetBit(q, hi), den, square)) THEN q
         ELSE BigSetBit(q, hi)
    ELSE LET mid == (hi + lo + 1) \div 2
             upper == Largest(q, hi, mid, den, square, n)
         IN  \* the test has the upper digits found before the lower ones
             IF upper = q THEN Largest(q, mid - 1, lo, den, square, n)
             ELSE Largest(upper, mid - 1, lo, den, square, n)

\* a significand m, 2^52 <= m <= 2^53, of digits above 2^(e + 1), as a double
Normal(m, e) ==
    IF m = BigTwoTo(Mantissa)
    THEN [m |-> BigTwoTo(Mantissa - 1), e |-> e + 2]
    ELSE [m |-> m, e |-> e + 1]

\* round to nearest, ties to even: the last of the 54 digits q2 is 1, and
\* something follows it or the digit before it is 1
RoundsUp(q2, exact) ==
    q2[1] % 2 = 1 /\ (~exact \/ (q2[1] \div 2) % 2 = 1)

\* The double nearest to the number of which q2 * 2^e, 2^53 <= q2 < 2^54, is
\* the first 54 binary digits; exact says that nothing follows them.
Round(q2, exact, e) ==
    Normal(IF RoundsUp(q2, exact) THEN BigSucc(BigHalf(q2)) ELSE BigHalf(q2),
           e)

\* Round for the first 54 binary digits q2 of n / den, or of the square root
\* of n when square
RoundQuotient(q2, den, square, n, e) ==
    Round(q2, Product(q2, den, square) = n, e)

\* the double nearest to (n / den) * 2^e, or to the square root of n times
\* 2^e when square, for a quotient or root from 2^53 up to below 2^54
Quotient(den, square, n, e) ==
    RoundQuotient(Largest(BigZero, Mantissa, 0, den, square, n),
                  den, square, n, e)

\* the power of two that brings the root of n from 2^53 up to below 2^54
RootScale(n) == Mantissa - (Log2(n) \div 2)

\* Math.sqrt(n) for an integer n >= 1
Sqrt(n) ==
    Quotient(BigZero, TRUE, BigShift(BigOfInt(n), 2 * RootScale(n)),
             0 - RootScale(n))

\* the double nearest to product * 2^e, for the product of two significands:
\* its first 54 binary digits are those above 2^51 or those above 2^52
RoundProduct(product, e) ==
    IF BigLess(product, BigTwoTo(2 * Mantissa - 1))
    THEN Quotient(BigTwoTo(Mantissa - 2), FALSE, product, e + Mantissa - 2)
    ELSE Quotient(BigTwoTo(Mantissa - 1), FALSE, product, e + Mantissa - 1)

\* x * y for two positive doubles
Times(x, y) == RoundProduct(BigMul(x.m, y.m), x.e + y.e)

\* the double nearest to (d * 2^t) / y.m, times 2^(-t - y.e)
Divide(d, y, t) ==
    Quotient(y.m, FALSE, BigShift(BigOfInt(d), t), 0 - t - y.e)

\* d / y for an integer d >= 1 and a positive double y: the power of two
\* that brings the quotient of d by the significand of y from 2^53 up to
\* below 2^54 is one more when the significand of d is below that of y
Over(d, y) ==
    IF BigLess(BigShift(BigOfInt(d), Mantissa - 1 - Log2(d)), y.m)
    THEN Divide(d, y, 2 * Mantissa - Log2(d))
    ELSE Divide(d, y, 2 * Mantissa - Log2(d) - 1)

\* x > y for two positive doubles
DoubleGreater(x, y) == x.e > y.e \/ (x.e = y.e /\ BigLess(y.m, x.m))

\* the absolute value of the double a similarity with dotProduct # 0 stands
\* for: |dotProduct| / (Math.sqrt(normA) * Math.sqrt(normB))
Magnitude(similarity) ==
    Over(IF similarity.dotProduct < 0 THEN 0 - similarity.dotProduct
         ELSE similarity.dotProduct,
         Times(Sqrt(similarity.normA), Sqrt(similarity.normB)))

\* the sign and the square of the real cosine, as the fraction num / den
SignedSquare(similarity) ==
    [num |-> IF similarity.dotProduct < 0
             THEN 0 - similarity.dotProduct * similarity.dotProduct
             ELSE similarity.dotProduct * similarity.dotProduct,
     den |-> similarity.normA * similarity.normB]

\* x > y for the doubles of two similarities, the sign of x - y.  Each of the
\* four operations is off by at most 2^-53 of its result, and two different
\* real cosines whose cross products num * den are below 2^31, as the
\* integers here are, lie further apart than that: the doubles of different
\* cosines compare as the cosines do.  The doubles of one real cosine reached
\* from different sums are computed and compared.
SimGreater(x, y) ==
    LET p == SignedSquare(x)
        q == SignedSquare(y)
    IN  IF p.num * q.den # q.num * p.den THEN p.num * q.den > q.num * p.den
        ELSE IF x = y \/ x.dotProduct = 0 THEN FALSE
        ELSE \* of two negative doubles the one of the smaller magnitude
             DoubleGreater(Magnitude(IF x.dotProduct > 0 THEN x ELSE y),
                           Magnitude(IF x.dotProduct > 0 THEN y ELSE x))

\* HasEmbedding without the test of the length
HasEmbeddingNotNull(chunk) == chunk.embedding # None

HasEmbedding(chunk) == chunk.embedding # None /\ Len(chunk.embedding[1]) > 0

\* InsertDescending with the comparison turned round (a.similarity -
\* b.similarity)
InsertAscending(sorted, item) ==
    LET k == Cardinality({j \in 1..Len(sorted) :
                            ~SimGreater(sorted[j].similarity, item.similarity)})
    IN  SubSeq(sorted, 1, k) \o <<item>> \o SubSeq(sorted, k + 1, Len(sorted))

\* Array.prototype.sort((a, b) => b.similarity - a.similarity), which is
\* stable: an item goes after every item that is not smaller
InsertDescending(sorted, item) ==
    LET k == Cardinality({j \in 1..Len(sorted) :
                            ~SimGreater(item.similarity, sorted[j].similarity)})
    IN  SubSeq(sorted, 1, k) \o <<item>> \o SubSeq(sorted, k + 1, Len(sorted))

RECURSIVE SortDescending(_, _)
SortDescending(items, n) ==
    IF n = 0 THEN <<>>
    ELSE InsertDescending(SortDescending(items, n - 1), items[n])

DefaultLimit == 5

searchChunksByEmbedding(chunks, queryEmbedding, limit) ==
    LET withEmbedding == SelectSeq(chunks, HasEmbedding)
        chunksWithScores ==
            [i \in 1..Len(withEmbedding) |->
                [chunk |-> withEmbedding[i],
                 similarity |-> cosineSimilarity(queryEmbedding,
                                                 withEmbedding[i].embedding[1])]]
        sorted == SortDescending(chunksWithScores, Len(chunksWithScores))
        top == Slice(sorted, 0, limit)
    IN  [i \in 1..Len(top) |-> top[i].chunk]

\* ------------------------------------------------------------------------
\* RAG orchestrator (ragService), the parts that compute
\* ------------------------------------------------------------------------
FallbackMessage ==
    <<"I", " ", "d", "o", "n", "'", "t", " ", "h", "a", "v", "e", " ", "a",
      "n", "y", " ", "m", "e", "d", "i", "c", "a", "l", " ", "d", "o", "c",
      "u", "m", "e", "n", "t", "s", " ", "i", "n", "d", "e", "x", "e", "d",
      " ", "y", "e", "t", " ", "t", "o", " ", "a", "n", "s", "w", "e", "r",
      " ", "y", "o", "u", "r", " ", "q", "u", "e", "s", "t", "i", "o", "n",
      ".", " ", "P", "l", "e", "a", "s", "e", " ", "u", "p", "l", "o", "a",
      "d", " ", "m", "e", "d", "i", "c", "a", "l", " ", "d", "a", "t", "a",
      "s", "e", "t", "s", " ", "t", "o", " ", "G", "o", "o", "g", "l", "e",
      " ", "D", "r", "i", "v", "e", " ", "a", "n", "d", " ", "i", "n", "d",
      "e", "x", " ", "t", "h", "e", "m", " ", "f", "i", "r", "s", "t", ",",
      " ", "o", "r", " ", "I", " ", "c", "a", "n", " ", "p", "r", "o", "v",
      "i", "d", "e", " ", "g", "e", "n", "e", "r", "a", "l", " ", "m", "e",
      "d", "i", "c", "a", "l", " ", "i", "n", "f", "o", "r", "m", "a", "t",
      "i", "o", "n", " ", "b", "a", "s", "e", "d", " ", "o", "n", " ", "m",
      "y", " ", "t", "r", "a", "i", "n", "i", "n", "g", ".">>

\* generateChatCompletion's answer when the provider returns no content
ApologyMessage ==
    <<"I", " ", "a", "p", "o", "l", "o", "g", "i", "z", "e", ",", " ", "b",
      "u", "t", " ", "I", " ", "c", "o", "u", "l", "d", "n", "'", "t", " ",
      "g", "e", "n", "e", "r", "a", "t", "e", " ", "a", " ", "r", "e", "s",
      "p", "o", "n", "s", "e", ".", " ", "P", "l", "e", "a", "s", "e", " ",
      "t", "r", "y", " ", "a", "g", "a", "i", "n", ".">>

ExcerptLength == 200
Confidence == 85    \* 0.85, in hundredths

\* chunk.metadata?.fileName || fallback: missing metadata and the empty name
\* both give the fallback
FileNameOr(chunk, fallback) ==
    IF chunk.metadata = None \/ chunk.metadata[1].fileName = ""
    THEN fallback
    ELSE chunk.metadata[1].fileName

Citation(chunk) ==
    [source |-> FileNameOr(chunk, "Unknown Source"),
     excerpt |-> Slice(chunk.content, 0, ExcerptLength)
                   \o (IF Len(chunk.content) > ExcerptLength
                       THEN <<".", ".", ".">> ELSE <<>>),
     confidence |-> Confidence,
     page |-> chunk.chunkIndex + 1]

Citations(relevantChunks) ==
    [i \in 1..Len(relevantChunks) |-> Citation(relevantChunks[i])]

\* StreamHead with the citations yielded after the fallback tokens
StreamHeadCitationsLast(relevantChunks) ==
    (IF Len(relevantChunks) = 0
     THEN [i \in 1..Len(FallbackMessage) |->
              [type |-> "token", data |-> <<FallbackMessage[i]>>]]
     ELSE <<>>)
      \o <<[type |-> "citations", data |-> Citations(relevantChunks)]>>

\* StreamHead with the fallback message yielded as one token
StreamHeadWholeMessage(relevantChunks) ==
    <<[type |-> "citations", data |-> Citations(relevantChunks)]>>
      \o (IF Len(relevantChunks) = 0
          THEN <<[type |-> "token", data |-> FallbackMessage]>>
          ELSE <<>>)

\* the events queryRAGStream yields up to its call of the completion
\* provider: the citations, and on the fallback path one token per character
\* of the fallback message
StreamHead(relevantChunks) ==
    <<[type |-> "citations", data |-> Citations(relevantChunks)]>>
      \o (IF Len(relevantChunks) = 0
          THEN [i \in 1..Len(FallbackMessage) |->
                   [type |-> "token", data |-> <<FallbackMessage[i]>>]]
          ELSE <<>>)

\* getIndexStats counting the files the chunks come from, not the documents
getIndexStatsByFile(chunks) ==
    [totalChunks |-> Len(getAllChunks(chunks)),
     uniqueDocuments |->
        Cardinality({getAllChunks(chunks)[i].metadata[1].fileId :
                        i \in 1..Len(chunks)})]

getIndexStats(chunks) ==
    [totalChunks |-> Len(getAllChunks(chunks)),
     uniqueDocuments |->
        Cardinality({getAllChunks(chunks)[i].documentId : i \in 1..Len(chunks)})]

\* ------------------------------------------------------------------------
\* State
\* ------------------------------------------------------------------------
VARIABLES
    messages,        \* MemStorage.messages, in insertion order
    conversations,   \* MemStorage.conversations, key -> record
    documentChunks,  \* MemStorage.documentChunks, in insertion order
    nextUuid,        \* the number of the next value randomUUID returns
    clock,           \* what new Date() reads
    started,         \* requests 1..started have arrived
    req,             \* per request: the handler's position and locals
    res,             \* per request: the response written so far
    calls,           \* per request: provider and drive calls issued
    storeCalls,      \* direct storage calls made so far
    lastCall,        \* the last direct call and its outcome
    connectionSettings, \* googleDrive's module variable of that name
    replitToken      \* process.env holds REPL_IDENTITY or WEB_REPL_RENEWAL

vars == <<messages, conversations, documentChunks, nextUuid, clock, started,
          req, res, calls, storeCalls, lastCall, connectionSettings, replitToken>>

store == <<messages, conversations, documentChunks, nextUuid>>

IdleReq ==
    [kind |-> "none", pc |-> "idle", body |-> None, convId |-> EmptyId,
     relevantChunks |-> <<>>, fullContent |-> <<>>, citations |-> <<>>,
     processed |-> None, next |-> "none", settingsFrom |-> 0]

NoResponse == [status |-> 0, body |-> None, frames |-> <<>>, ended |-> FALSE]

NoCalls == [embedding |-> 0, completion |-> 0, drive |-> 0, connector |-> 0]

Init ==
    /\ messages = <<>>
    /\ conversations = <<>>
    /\ documentChunks = <<>>
    /\ nextUuid = 1
    /\ clock = 0
    /\ started = 0
    /\ req = [r \in Requests |-> IdleReq]
    /\ res = [r \in Requests |-> NoResponse]
    /\ calls = [r \in Requests |-> NoCalls]
    /\ storeCalls = 0
    /\ lastCall = [op |-> "none"]
    /\ connectionSettings = None
    /\ replitToken \in BOOLEAN

\* ------------------------------------------------------------------------
\* Inputs
\* ------------------------------------------------------------------------
\* the text of a chat message: longer than the 50 characters of a title
Texts == {Rep("q", 51) \o <<"?">>}

\* the message field of a chat body: missing, empty, or a text
MessageFields == {None, Some(<<>>)} \cup {Some(t) : t \in Texts}

\* the conversationId field: missing, empty, unknown, or a known id
ConversationIdFields ==
    {None, Some(EmptyId), Some(GhostId)}
        \cup {Some(k) : k \in DOMAIN conversations}

\* the bodies of a chat request: a text with any conversationId, or a
\* missing or empty message
ChatBodies ==
    {b \in [message : MessageFields, conversationId : ConversationIdFields] :
        b.message \in {None, Some(<<>>)} => b.conversationId = None}

\* what the embedding provider answers: a vector per text
Vectors == {<<1, 0>>, <<1, 1>>}

\* the content of one delta of the completion stream.  A delta without
\* content is skipped by generateChatCompletionStream and changes nothing: it
\* is a stuttering step.
Deltas == {<<"a">>, <<"b", "c">>}

\* the content of a whole completion: missing, or a text
Completions == {None, Some(<<"o", "k">>)}

\* ------------------------------------------------------------------------
\* POST /api/chat and POST /api/chat/stream: the common beginning
\* ------------------------------------------------------------------------
\* ValidChatBody without min(1)
ValidChatBodyAnyString(body) == body.message # None

\* requestSchema.parse: message is a string of at least one character, and
\* conversationId, when present, a string
ValidChatBody(body) == body.message # None /\ Len(body.message[1]) >= 1

ValidationError ==
    [status |-> 400, body |-> Some([error |-> "Validation error"]),
     frames |-> <<>>, ended |-> TRUE]

ServerError(error, message) ==
    [status |-> 500, body |-> Some([error |-> error, message |-> message]),
     frames |-> <<>>, ended |-> TRUE]

\* UserMessage with the conversationId of the body, not the id of the
\* conversation the handler goes on with
UserMessageBodyId(body, convId) ==
    [conversationId |-> IF body.conversationId = None THEN EmptyId
                        ELSE body.conversationId[1],
     role |-> "user", content |-> body.message[1], citations |-> None]

\* "Store user message": what the handler gives createMessage
UserMessage(body, convId) ==
    [conversationId |-> convId, role |-> "user", content |-> body.message[1],
     citations |-> None]

\* `if (!convId)`: no conversationId in the body, or the empty one
CreatesConversation(body) ==
    body.conversationId = None \/ body.conversationId[1] = EmptyId

Arrives(r) == r = started + 1 /\ r \in Requests /\ started' = r

\* A chat handler waits at an await that no input or output stands behind:
\* at `await storage.createConversation` with the conversation stored, or at
\* `await storage.createMessage` with the user message stored.  It goes on
\* when the microtasks run, before any callback of a provider or of the drive.
Suspended(r) == req[r].pc \in {"conversation", "userMessage"}

Drained == \A r \in Requests : ~Suspended(r)

\* The beginning of either chat handler, up to its first await: the body is
\* validated, and the conversation is created, or the user message is stored
\* under the conversationId of the body.
BeginChat(r, kind, body) ==
    /\ Arrives(r)
    /\ IF ~ValidChatBody(body)
       THEN /\ res' = [res EXCEPT ![r] = ValidationError]
            /\ req' = [req EXCEPT ![r].kind = kind, ![r].pc = "done",
                                  ![r].body = Some(body)]
            /\ UNCHANGED store
       ELSE IF CreatesConversation(body)
       THEN /\ conversations' =
                  createConversation(conversations,
                                     [title |-> Some(Slice(body.message[1], 0, 50))],
                                     nextUuid, clock)
            /\ nextUuid' = nextUuid + 1
            /\ req' = [req EXCEPT ![r].kind = kind, ![r].pc = "conversation",
                                  ![r].body = Some(body),
                                  ![r].convId = nextUuid]
            /\ UNCHANGED <<messages, documentChunks, res>>
       ELSE /\ messages' =
                  createMessage(messages,
                                UserMessage(body, body.conversationId[1]),
                                nextUuid, clock)
            /\ nextUuid' = nextUuid + 1
            /\ req' = [req EXCEPT ![r].kind = kind, ![r].pc = "userMessage",
                                  ![r].body = Some(body),
                                  ![r].convId = body.conversationId[1]]
            /\ UNCHANGED <<conversations, documentChunks, res>>
    /\ UNCHANGED <<clock, calls, storeCalls, lastCall, connectionSettings,
                   replitToken>>

RECURSIVE ResumeLoop(_, _)
\* the messages and the next uuid once the handlers among r..MaxReq that wait
\* at `await storage.createConversation` have stored their user messages, in
\* the order in which they began to wait
ResumeLoop(r, st) ==
    IF r > MaxReq THEN st
    ELSE ResumeLoop(r + 1,
            IF req[r].pc = "conversation"
            THEN [messages |-> createMessage(st.messages,
                                             UserMessage(req[r].body[1],
                                                         req[r].convId),
                                             st.nextUuid, clock),
                  nextUuid |-> st.nextUuid + 1]
            ELSE st)

\* The microtasks run: every waiting chat handler goes on, in the order of
\* arrival, to its call of generateEmbedding; the handlers that created a
\* conversation store their user messages on the way.
ResumeChats ==
    LET st == ResumeLoop(1, [messages |-> messages, nextUuid |-> nextUuid]) IN
    /\ ~Drained
    /\ messages' = st.messages
    /\ nextUuid' = st.nextUuid
    /\ req' = [r \in Requests |->
                 IF Suspended(r) THEN [req[r] EXCEPT !.pc = "embedding"]
                 ELSE req[r]]
    /\ calls' = [r \in Requests |->
                   IF Suspended(r)
                   THEN [calls[r] EXCEPT !.embedding = @ + 1]
                   ELSE calls[r]]
    /\ UNCHANGED <<conversations, documentChunks, clock, started, res,
                   storeCalls, lastCall, connectionSettings, replitToken>>

\* ------------------------------------------------------------------------
\* POST /api/chat
\* ------------------------------------------------------------------------
ChatStart(r, body) == BeginChat(r, "chat", body)

\* "Store assistant message" and res.json(response)
ChatRespond(r, answer, citations) ==
    /\ messages' = createMessage(messages,
                                 [conversationId |-> req[r].convId,
                                  role |-> "assistant", content |-> answer,
                                  citations |-> Some(citations)],
                                 nextUuid, clock)
    /\ nextUuid' = nextUuid + 1
    /\ res' = [res EXCEPT ![r] =
                 [status |-> 200,
                  body |-> Some([messageId |-> nextUuid,
                                 conversationId |-> req[r].convId,
                                 content |-> answer,
                                 citations |-> citations,
                                 timestamp |-> clock]),
                  frames |-> <<>>, ended |-> TRUE]]

\* generateEmbedding answers: queryRAG searches, and either returns the
\* fallback answer or calls generateChatCompletion
ChatEmbedded(r, questionEmbedding) ==
    /\ Drained
    /\ req[r].kind = "chat" /\ req[r].pc = "embedding"
    /\ LET relevantChunks ==
             searchChunksByEmbedding(documentChunks, questionEmbedding,
                                     DefaultLimit)
       IN  IF Len(relevantChunks) = 0
           THEN /\ ChatRespond(r, FallbackMessage, <<>>)
                /\ req' = [req EXCEPT ![r].pc = "done"]
                /\ UNCHANGED calls
           ELSE /\ req' = [req EXCEPT ![r].pc = "completing",
                                      ![r].relevantChunks = relevantChunks]
                /\ calls' = [calls EXCEPT ![r].completion = @ + 1]
                /\ UNCHANGED <<messages, nextUuid, res>>
    /\ UNCHANGED <<conversations, documentChunks, clock, started, storeCalls,
                   lastCall, connectionSettings, replitToken>>

\* generateChatCompletion answers
ChatCompleted(r, content) ==
    /\ Drained
    /\ req[r].kind = "chat" /\ req[r].pc = "completing"
    /\ LET answer == IF content = None \/ content[1] = <<>>
                     THEN ApologyMessage ELSE content[1]
       IN  ChatRespond(r, answer, Citations(req[r].relevantChunks))
    /\ req' = [req EXCEPT ![r].pc = "done", ![r].relevantChunks = <<>>]
    /\ UNCHANGED <<conversations, documentChunks, clock, started, calls,
                   storeCalls, lastCall, connectionSettings, replitToken>>

\* ChatFailed that stores the apology as the assistant's message before it
\* answers 500
ChatFailedStoresApology(r) ==
    /\ Drained
    /\ req[r].kind = "chat" /\ req[r].pc \in {"embedding", "completing"}
    /\ messages' = createMessage(messages,
                                 [conversationId |-> req[r].convId,
                                  role |-> "assistant",
                                  content |-> ApologyMessage,
                                  citations |-> None],
                                 nextUuid, clock)
    /\ nextUuid' = nextUuid + 1
    /\ res' = [res EXCEPT ![r] =
                 ServerError("Failed to process message",
                             IF req[r].pc = "embedding"
                             THEN "Failed to generate embedding"
                             ELSE "Failed to generate response")]
    /\ req' = [req EXCEPT ![r].pc = "done", ![r].relevantChunks = <<>>]
    /\ UNCHANGED <<conversations, documentChunks, clock, started, calls,
                   storeCalls, lastCall, connectionSettings, replitToken>>

\* a provider call of queryRAG throws: the outer catch answers 500
ChatFailed(r) ==
    /\ Drained
    /\ req[r].kind = "chat" /\ req[r].pc \in {"embedding", "completing"}
    /\ res' = [res EXCEPT ![r] =
                 ServerError("Failed to process message",
                             IF req[r].pc = "embedding"
                             THEN "Failed to generate embedding"
                             ELSE "Failed to generate response")]
    /\ req' = [req EXCEPT ![r].pc = "done", ![r].relevantChunks = <<>>]
    /\ UNCHANGED <<store, clock, started, calls, storeCalls, lastCall,
                   connectionSettings, replitToken>>

\* ------------------------------------------------------------------------
\* POST /api/chat/stream
\* ------------------------------------------------------------------------
StreamStart(r, body) == BeginChat(r, "stream", body)

\* The for await loop over the events of queryRAGStream: a citations event
\* sets the local citations and writes an init frame, a token event appends
\* to fullContent and writes a token frame.  TokenText is the text the token
\* events lo..hi add to fullContent, in order (computed by halving the range).
RECURSIVE TokenText(_, _, _)
TokenText(events, lo, hi) ==
    IF lo > hi THEN <<>>
    ELSE IF lo = hi
    THEN IF events[lo].type = "token" THEN events[lo].data ELSE <<>>
    ELSE LET mid == (lo + hi) \div 2
         IN  TokenText(events, lo, mid) \o TokenText(events, mid + 1, hi)

FrameOf(chunk, convId) ==
    IF chunk.type = "citations"
    THEN [type |-> "init", conversationId |-> convId, citations |-> chunk.data]
    ELSE [type |-> "token", content |-> chunk.data]

\* ConsumeEvents with fullContent = chunk.data in place of +=
ConsumeEventsOverwrite(events, convId, st) ==
    LET cited == {i \in 1..Len(events) : events[i].type = "citations"}
        tokens == {i \in 1..Len(events) : events[i].type = "token"}
    IN  [fullContent |->
            IF tokens = {} THEN st.fullContent
            ELSE events[CHOOSE i \in tokens : \A j \in tokens : j <= i].data,
         citations |->
            IF cited = {} THEN st.citations
            ELSE events[CHOOSE i \in cited : \A j \in cited : j <= i].data,
         frames |->
            st.frames \o [i \in 1..Len(events) |-> FrameOf(events[i], convId)]]

ConsumeEvents(events, convId, st) ==
    LET cited == {i \in 1..Len(events) : events[i].type = "citations"}
    IN  [fullContent |-> st.fullContent \o TokenText(events, 1, Len(events)),
         citations |->
            IF cited = {} THEN st.citations
            ELSE events[CHOOSE i \in cited : \A j \in cited : j <= i].data,
         frames |->
            st.frames \o [i \in 1..Len(events) |-> FrameOf(events[i], convId)]]

Locals(r) ==
    [fullContent |-> req[r].fullContent, citations |-> req[r].citations,
     frames |-> res[r].frames]

\* "Store complete assistant message", the done frame and res.end()
StreamComplete(r, st) ==
    /\ messages' = createMessage(messages,
                                 [conversationId |-> req[r].convId,
                                  role |-> "assistant",
                                  content |-> st.fullContent,
                                  citations |-> Some(st.citations)],
                                 nextUuid, clock)
    /\ nextUuid' = nextUuid + 1
    /\ res' = [res EXCEPT ![r] =
                 [status |-> 200, body |-> None,
                  frames |-> Append(st.frames,
                                    [type |-> "done", messageId |-> nextUuid,
                                     timestamp |-> clock]),
                  ended |-> TRUE]]
    /\ req' = [req EXCEPT ![r].pc = "done",
                          ![r].fullContent = st.fullContent,
                          ![r].citations = st.citations]

\* generateEmbedding answers: queryRAGStream searches and yields the
\* citations; with no chunk found it yields the fallback tokens and returns,
\* otherwise it calls generateChatCompletionStream
StreamEmbedded(r, questionEmbedding) ==
    /\ Drained
    /\ req[r].kind = "stream" /\ req[r].pc = "embedding"
    /\ LET relevantChunks ==
             searchChunksByEmbedding(documentChunks, questionEmbedding,
                                     DefaultLimit)
           st == ConsumeEvents(StreamHead(relevantChunks), req[r].convId,
                               Locals(r))
       IN  IF Len(relevantChunks) = 0
           THEN /\ StreamComplete(r, st)
                /\ UNCHANGED calls
           ELSE /\ req' = [req EXCEPT ![r].pc = "streaming",
                                      ![r].fullContent = st.fullContent,
                                      ![r].citations = st.citations]
                /\ res' = [res EXCEPT ![r].status = 200,
                                      ![r].frames = st.frames]
                /\ calls' = [calls EXCEPT ![r].completion = @ + 1]
                /\ UNCHANGED <<messages, nextUuid>>
    /\ UNCHANGED <<conversations, documentChunks, clock, started, storeCalls,
                   lastCall, connectionSettings, replitToken>>

\* the token frames written so far
TokenFrames(r) ==
    Cardinality({i \in 1..Len(res[r].frames) : res[r].frames[i].type = "token"})

\* one delta of the completion stream arrives: generateChatCompletionStream
\* yields its content
StreamDelta(r, content) ==
    /\ Drained
    /\ req[r].kind = "stream" /\ req[r].pc = "streaming"
    /\ TokenFrames(r) < MaxTokens
    /\ LET events == <<[type |-> "token", data |-> content]>>
           st == ConsumeEvents(events, req[r].convId, Locals(r))
       IN  /\ req' = [req EXCEPT ![r].fullContent = st.fullContent]
           /\ res' = [res EXCEPT ![r].frames = st.frames]
    /\ UNCHANGED <<store, clock, started, calls, storeCalls, lastCall,
                   connectionSettings, replitToken>>

\* the completion stream ends
StreamFinished(r) ==
    /\ Drained
    /\ req[r].kind = "stream" /\ req[r].pc = "streaming"
    /\ StreamComplete(r, Locals(r))
    /\ UNCHANGED <<conversations, documentChunks, clock, started, calls,
                   storeCalls, lastCall, connectionSettings, replitToken>>

\* StreamFailed with the error frame written and the stream read on
StreamFailedReadsOn(r) ==
    /\ Drained
    /\ req[r].kind = "stream" /\ req[r].pc = "streaming"
    /\ res[r].frames[Len(res[r].frames)].type # "error"
    /\ res' = [res EXCEPT ![r].frames =
                             Append(@, [type |-> "error",
                                        error |-> "Failed to generate response"])]
    /\ UNCHANGED <<store, clock, started, req, calls, storeCalls, lastCall,
                   connectionSettings, replitToken>>

\* a provider call of queryRAGStream throws: the inner catch writes an error
\* frame, and res.end() follows
StreamFailed(r) ==
    /\ Drained
    /\ req[r].kind = "stream" /\ req[r].pc \in {"embedding", "streaming"}
    /\ res' = [res EXCEPT ![r].status = 200,
                          ![r].frames =
                             Append(@, [type |-> "error",
                                        error |-> IF req[r].pc = "embedding"
                                                  THEN "Failed to generate embedding"
                                                  ELSE "Failed to generate response"]),
                          ![r].ended = TRUE]
    /\ req' = [req EXCEPT ![r].pc = "done"]
    /\ UNCHANGED <<store, clock, started, calls, storeCalls, lastCall,
                   connectionSettings, replitToken>>

\* ------------------------------------------------------------------------
\* The drive, and POST /api/documents/process
\* ------------------------------------------------------------------------
\* The files of the drive: a plain text of three sentences (of 51, 950 and 60
\* characters once split, which chunkText turns into chunks of 51, 1002 and
\* 261 characters), a PDF of one sentence with untidy whitespace, a nameless
\* note too short to give a chunk, and an image.
SentenceA == Rep("a", 51) \o <<".">>
SentenceB == Rep("b", 950) \o <<"!">>
SentenceC == Rep("c", 59) \o <<".">>

DriveFiles ==
    [f \in {"f1", "f2", "f3", "f4"} |->
        CASE f = "f1" ->
               [name |-> "notes.txt", mimeType |-> "text/plain",
                text |-> SentenceA \o <<" ">> \o SentenceB \o <<" ">> \o SentenceC]
          [] f = "f2" ->
               [name |-> "guide.pdf", mimeType |-> "application/pdf",
                text |-> <<"\n", "U+00A0">> \o Rep("d", 30) \o <<" ", "\r", "\n">>
                           \o Rep("e", 30) \o <<".", "\n">>]
          [] f = "f3" ->
               [name |-> "", mimeType |-> "text/plain",
                text |-> <<"o", "k", ".">>]
          [] f = "f4" ->
               [name |-> "scan.png", mimeType |-> "image/png", text |-> <<>>]]

FileIdFields == {None, Some("")} \cup {Some(f) : f \in DOMAIN DriveFiles}
FileNameFields == {None, Some(""), Some("x")}

\* the bodies of a process request: a file of the drive under a name, or one
\* field missing or empty
ProcessBodies ==
    {b \in [fileId : FileIdFields, fileName : FileNameFields] :
        \/ b.fileId \notin {None, Some("")} /\ b.fileName = Some("x")
        \/ b.fileId \in {None, Some("")} /\ b.fileName = Some("x")
        \/ b.fileId = Some("f1") /\ b.fileName \in {None, Some("")}}

ValidProcessBody(body) ==
    /\ body.fileId # None /\ body.fileId[1] # ""
    /\ body.fileName # None /\ body.fileName[1] # ""

ParsedMimeTypes ==
    {"application/pdf",
     "application/vnd.openxmlformats-officedocument.wordprocessingml.document"}

\* processDocument wraps what it catches as "Failed to process document: ..."
ProcessErrorResponse ==
    ServerError("Failed to process document", "Failed to process document")

\* generateEmbeddings, called by indexDocument outside processDocument, wraps
\* what it catches as "Failed to generate embeddings: ..."
EmbeddingsErrorResponse ==
    ServerError("Failed to process document", "Failed to generate embeddings")

ListErrorResponse == ServerError("Failed to list documents", "drive error")

\* What the connector answers with as data.items?.[0]: nothing, an item
\* without settings, or settings with an access token and an expiry that has
\* passed or has not.
ConnectorItems ==
    {None, Some([settings |-> None])}
        \cup {Some([settings |-> Some([access_token |-> "t", expires_at |-> e])]) :
                 e \in {clock, clock + 1}}

\* getAccessToken to its first await: the test of the cache throws (settings
\* undefined), or the cached token is returned, or, with nothing valid in the
\* cache, 'X_REPLIT_TOKEN not found' is thrown or the connector is asked
TokenCheck ==
    IF connectionSettings # None /\ connectionSettings[1].settings = None
    THEN "throws"
    ELSE IF /\ connectionSettings # None
            /\ connectionSettings[1].settings[1].expires_at > clock
    THEN "cached"
    ELSE IF ~replitToken THEN "throws"
    ELSE "fetch"

\* the request whose step assigned the connectionSettings that request r
\* reads now (writtenBy and settingsFrom are not in the code: they record who
\* wrote the variable and whose value a request read)
ReadFrom(r) ==
    IF connectionSettings = None THEN req[r].settingsFrom
    ELSE connectionSettings[1].writtenBy

\* A drive function (getFileMetadata, downloadDriveFile, listDriveFiles) is
\* called for request r, whose locals are rec: getUncachableGoogleDriveClient
\* and getAccessToken run, and the drive call `what` is issued, or the
\* connector is asked first, or the request fails with `error`.
BeginDriveCall(r, rec, what, error) ==
    LET read == [rec EXCEPT !.settingsFrom = ReadFrom(r)] IN
    /\ CASE TokenCheck = "cached" ->
              /\ req' = [req EXCEPT ![r] = [read EXCEPT !.pc = what]]
              /\ calls' = [calls EXCEPT ![r].drive = @ + 1]
              /\ UNCHANGED res
         [] TokenCheck = "fetch" ->
              /\ req' = [req EXCEPT ![r] = [read EXCEPT !.pc = "token",
                                                        !.next = what]]
              /\ calls' = [calls EXCEPT ![r].connector = @ + 1]
              /\ UNCHANGED res
         [] TokenCheck = "throws" ->
              /\ req' = [req EXCEPT ![r] = [read EXCEPT !.pc = "done",
                                                        !.processed = None]]
              /\ res' = [res EXCEPT ![r] = error]
              /\ UNCHANGED calls
    /\ UNCHANGED <<connectionSettings, replitToken>>

\* The connector answers request r: getAccessToken assigns the item to
\* connectionSettings, throws if it holds no access token, and otherwise the
\* drive call the request was about to make is issued.
TokenFetched(r, item) ==
    /\ Drained
    /\ req[r].pc = "token"
    /\ connectionSettings' =
          IF item = None THEN None
          ELSE Some([settings |-> item[1].settings, writtenBy |-> r])
    /\ IF item = None \/ item[1].settings = None
       THEN /\ res' = [res EXCEPT ![r] = IF req[r].kind = "list"
                                         THEN ListErrorResponse
                                         ELSE ProcessErrorResponse]
            /\ req' = [req EXCEPT ![r].pc = "done", ![r].next = "none",
                                  ![r].processed = None]
            /\ UNCHANGED calls
       ELSE /\ req' = [req EXCEPT ![r].pc = req[r].next, ![r].next = "none",
                                  ![r].settingsFrom = r]
            /\ calls' = [calls EXCEPT ![r].drive = @ + 1]
            /\ UNCHANGED res
    /\ UNCHANGED <<store, clock, started, storeCalls, lastCall, replitToken>>

\* the handler up to the drive call of getFileMetadata
ProcessStart(r, body) ==
    /\ Arrives(r)
    /\ IF ~ValidProcessBody(body)
       THEN /\ res' = [res EXCEPT ![r] = ValidationError]
            /\ req' = [req EXCEPT ![r].kind = "process", ![r].pc = "done",
                                  ![r].body = Some(body)]
            /\ UNCHANGED <<calls, connectionSettings, replitToken>>
       ELSE BeginDriveCall(r, [req[r] EXCEPT !.kind = "process",
                                             !.body = Some(body)],
                           "metadata", ProcessErrorResponse)
    /\ UNCHANGED <<store, clock, storeCalls, lastCall>>

\* the fileId of the validated body
FileId(r) == req[r].body[1].fileId[1]

\* the metadata arrive: processDocument calls downloadDriveFile
ProcessMetadata(r) ==
    /\ Drained
    /\ req[r].kind = "process" /\ req[r].pc = "metadata"
    /\ LET metadata == DriveFiles[FileId(r)] IN
       BeginDriveCall(r,
           [req[r] EXCEPT
              !.processed =
                 Some([fileId |-> FileId(r),
                       fileName |-> IF metadata.name = "" THEN "unknown"
                                    ELSE metadata.name,
                       mimeType |-> IF metadata.mimeType = "" THEN "unknown"
                                    ELSE metadata.mimeType,
                       chunks |-> <<>>, documentId |-> EmptyId])],
           "download", ProcessErrorResponse)
    /\ UNCHANGED <<store, clock, started, storeCalls, lastCall>>

\* processDocument from the extracted text on, then indexDocument up to its
\* call of generateEmbeddings
Extracted(r, text) ==
    /\ req' = [req EXCEPT
                 ![r].pc = "embeddings",
                 ![r].processed =
                    Some([req[r].processed[1] EXCEPT
                            !.chunks = chunkText(CleanUp(text), DefaultChunkSize,
                                                 DefaultOverlap),
                            !.documentId = nextUuid])]
    /\ nextUuid' = nextUuid + 1
    /\ calls' = [calls EXCEPT ![r].embedding = @ + 1]
    /\ UNCHANGED res

ProcessError(r) ==
    /\ res' = [res EXCEPT ![r] = IF req[r].pc = "embeddings"
                                 THEN EmbeddingsErrorResponse
                                 ELSE ProcessErrorResponse]
    /\ req' = [req EXCEPT ![r].pc = "done", ![r].processed = None,
                          ![r].next = "none"]
    /\ UNCHANGED <<nextUuid, calls>>

\* the file's bytes arrive: a plain text is extracted at once, a PDF or DOCX
\* is handed to its parser, any other type is refused
ProcessDownloaded(r) ==
    /\ Drained
    /\ req[r].kind = "process" /\ req[r].pc = "download"
    /\ LET mimeType == req[r].processed[1].mimeType IN
       IF mimeType = "text/plain"
       THEN Extracted(r, DriveFiles[FileId(r)].text)
       ELSE IF mimeType \in ParsedMimeTypes
       THEN /\ req' = [req EXCEPT ![r].pc = "extract"]
            /\ UNCHANGED <<nextUuid, calls, res>>
       ELSE ProcessError(r)
    /\ UNCHANGED <<messages, conversations, documentChunks, clock, started,
                   storeCalls, lastCall, connectionSettings, replitToken>>

\* the parser answers with the text
ProcessExtracted(r) ==
    /\ Drained
    /\ req[r].kind = "process" /\ req[r].pc = "extract"
    /\ Extracted(r, DriveFiles[FileId(r)].text)
    /\ UNCHANGED <<messages, conversations, documentChunks, clock, started,
                   storeCalls, lastCall, connectionSettings, replitToken>>

\* StoreChunks with chunkIndex counted from 1
RECURSIVE StoreChunksOneBased(_, _, _, _, _)
StoreChunksOneBased(chunks, processed, embeddings, i, now) ==
    IF i > Len(processed.chunks) THEN chunks
    ELSE StoreChunksOneBased(
            createDocumentChunk(chunks,
                [documentId |-> processed.documentId,
                 content |-> processed.chunks[i],
                 embedding |-> Some(embeddings[i]),
                 metadata |-> Some([fileName |-> processed.fileName,
                                    fileId |-> processed.fileId,
                                    totalChunks |-> Len(processed.chunks),
                                    processedAt |-> now]),
                 chunkIndex |-> i],
                nextUuid + i - 1),
            processed, embeddings, i + 1, now)

\* the chunks indexDocument stores: chunk i gets the i-th embedding and the
\* id the i-th call of randomUUID returns
RECURSIVE StoreChunks(_, _, _, _, _)
StoreChunks(chunks, processed, embeddings, i, now) ==
    IF i > Len(processed.chunks) THEN chunks
    ELSE StoreChunks(
            createDocumentChunk(chunks,
                [documentId |-> processed.documentId,
                 content |-> processed.chunks[i],
                 embedding |-> Some(embeddings[i]),
                 metadata |-> Some([fileName |-> processed.fileName,
                                    fileId |-> processed.fileId,
                                    totalChunks |-> Len(processed.chunks),
                                    processedAt |-> now]),
                 chunkIndex |-> i - 1],
                nextUuid + i - 1),
            processed, embeddings, i + 1, now)

\* generateEmbeddings answers: every chunk is stored and the handler responds
ProcessEmbedded(r, embeddings) ==
    /\ Drained
    /\ req[r].kind = "process" /\ req[r].pc = "embeddings"
    /\ LET processed == req[r].processed[1] IN
       /\ Len(embeddings) = Len(processed.chunks)
       /\ documentChunks' = StoreChunks(documentChunks, processed, embeddings,
                                        1, clock)
       /\ nextUuid' = nextUuid + Len(processed.chunks)
       /\ res' = [res EXCEPT ![r] =
                    [status |-> 200,
                     body |-> Some([documentId |-> processed.documentId,
                                    chunksProcessed |-> Len(processed.chunks),
                                    status |-> "success"]),
                     frames |-> <<>>, ended |-> TRUE]]
    /\ req' = [req EXCEPT ![r].pc = "done", ![r].processed = None]
    /\ UNCHANGED <<messages, conversations, clock, started, calls, storeCalls,
                   lastCall, connectionSettings, replitToken>>

\* the connector, a drive call, a parser or generateEmbeddings throws: the
\* catch answers 500
ProcessFailed(r) ==
    /\ Drained
    /\ req[r].kind = "process"
    /\ req[r].pc \in {"token", "metadata", "download", "extract", "embeddings"}
    /\ ProcessError(r)
    /\ UNCHANGED <<messages, conversations, documentChunks, clock, started,
                   storeCalls, lastCall, connectionSettings, replitToken>>

\* ------------------------------------------------------------------------
\* GET /api/documents
\* ------------------------------------------------------------------------
\* the files listDriveFiles asks for by default: PDFs and plain texts
ListedFiles ==
    {f \in DOMAIN DriveFiles :
        DriveFiles[f].mimeType \in {"application/pdf", "text/plain"}}

ListStart(r) ==
    /\ Arrives(r)
    /\ BeginDriveCall(r, [req[r] EXCEPT !.kind = "list"], "list",
                      ListErrorResponse)
    /\ UNCHANGED <<store, clock, storeCalls, lastCall>>

\* the drive answers with the files
ListAnswered(r) ==
    /\ Drained
    /\ req[r].kind = "list" /\ req[r].pc = "list"
    /\ res' = [res EXCEPT ![r] =
                 [status |-> 200, body |-> Some([files |-> ListedFiles]),
                  frames |-> <<>>, ended |-> TRUE]]
    /\ req' = [req EXCEPT ![r].pc = "done"]
    /\ UNCHANGED <<store, clock, started, calls, storeCalls, lastCall,
                   connectionSettings, replitToken>>

\* the connector or the drive call throws: the catch answers 500
ListFailed(r) ==
    /\ Drained
    /\ req[r].kind = "list" /\ req[r].pc \in {"token", "list"}
    /\ res' = [res EXCEPT ![r] = ListErrorResponse]
    /\ req' = [req EXCEPT ![r].pc = "done", ![r].next = "none"]
    /\ UNCHANGED <<store, clock, started, calls, storeCalls, lastCall,
                   connectionSettings, replitToken>>

\* ------------------------------------------------------------------------
\* GET /api/stats
\* ------------------------------------------------------------------------
StatsRequest(r) ==
    /\ Arrives(r)
    /\ res' = [res EXCEPT ![r] =
                 [status |-> 200, body |-> Some(getIndexStats(documentChunks)),
                  frames |-> <<>>, ended |-> TRUE]]
    /\ req' = [req EXCEPT ![r].kind = "stats", ![r].pc = "done"]
    /\ UNCHANGED <<store, clock, calls, storeCalls, lastCall,
                   connectionSettings, replitToken>>

\* ------------------------------------------------------------------------
\* Time, and the specification of the HTTP layer
\* ------------------------------------------------------------------------
\* The clock advances by a millisecond, between any two steps: Date.now() and
\* new Date() read it.
Tick ==
    /\ clock < MaxClock
    /\ clock' = clock + 1
    /\ UNCHANGED <<store, started, req, res, calls, storeCalls, lastCall,
                   connectionSettings, replitToken>>

\* the answers generateEmbeddings may give to request r, a vector per chunk:
\* the same vector for every chunk, or two vectors in turn
EmbeddingLists(r) ==
    IF req[r].processed = None THEN {}
    ELSE LET n == Len(req[r].processed[1].chunks)
         IN  {[i \in 1..n |-> <<1, 0>>],
              [i \in 1..n |-> IF i % 2 = 1 THEN <<1, 1>> ELSE <<1, 0>>]}

Next ==
    \/ \E r \in Requests, body \in ChatBodies : ChatStart(r, body)
    \/ ResumeChats
    \/ \E r \in Requests, e \in Vectors : ChatEmbedded(r, e)
    \/ \E r \in Requests, c \in Completions : ChatCompleted(r, c)
    \/ \E r \in Requests : ChatFailed(r)
    \/ \E r \in Requests, body \in ChatBodies : StreamStart(r, body)
    \/ \E r \in Requests, e \in Vectors : StreamEmbedded(r, e)
    \/ \E r \in Requests, d \in Deltas : StreamDelta(r, d)
    \/ \E r \in Requests : StreamFinished(r)
    \/ \E r \in Requests : StreamFailed(r)
    \/ \E r \in Requests, body \in ProcessBodies : ProcessStart(r, body)
    \/ \E r \in Requests : ProcessMetadata(r)
    \/ \E r \in Requests : ProcessDownloaded(r)
    \/ \E r \in Requests : ProcessExtracted(r)
    \/ \E r \in Requests :
          \E embeddings \in EmbeddingLists(r) : ProcessEmbedded(r, embeddings)
    \/ \E r \in Requests : ProcessFailed(r)
    \/ \E r \in Requests : StatsRequest(r)
    \/ \E r \in Requests, item \in ConnectorItems : TokenFetched(r, item)
    \/ \E r \in Requests : ListStart(r)
    \/ \E r \in Requests : ListAnswered(r)
    \/ \E r \in Requests : ListFailed(r)
    \/ Tick

Spec == Init /\ [][Next]_vars

\* ------------------------------------------------------------------------
\* MemStorage called directly (the storage interface without the HTTP layer)
\* ------------------------------------------------------------------------
MaxLimit == 2      \* the largest limit a direct search is given

\* embeddings a caller may store: none, empty, of another dimension, zero,
\* vectors at different angles to the queries, and two of one direction,
\* whose similarities to a query are one real number and may be two doubles
StoredEmbeddings ==
    {None, Some(<<>>), Some(<<1>>), Some(<<0, 0>>), Some(<<1, 0>>),
     Some(<<1, 1>>), Some(<<0 - 1, 0>>), Some(<<3, 3>>)}

QueryEmbeddings == {<<1, 0>>, <<1, 1>>, <<0, 0>>}

UpdateData ==
    {[title |-> Some(<<"n">>)], [updatedAt |-> 0], [id |-> GhostId]}

DirectCall == storeCalls < MaxCalls /\ storeCalls' = storeCalls + 1

CallCreateConversation(title) ==
    /\ DirectCall
    /\ conversations' = createConversation(conversations, [title |-> title],
                                           nextUuid, clock)
    /\ nextUuid' = nextUuid + 1
    /\ lastCall' = [op |-> "createConversation", id |-> nextUuid]
    /\ UNCHANGED <<messages, documentChunks, clock, started, req, res, calls,
                   connectionSettings, replitToken>>

CallUpdateConversation(id, data) ==
    /\ DirectCall
    /\ conversations' = updateConversation(conversations, id, data, clock)
    /\ lastCall' = [op |-> "updateConversation", id |-> id,
                    threw |-> updateConversationThrows(conversations, id)]
    /\ UNCHANGED <<messages, documentChunks, nextUuid, clock, started, req,
                   res, calls, connectionSettings, replitToken>>

CallCreateDocumentChunk(embedding, documentId) ==
    /\ DirectCall
    /\ documentChunks' =
          createDocumentChunk(documentChunks,
                              [documentId |-> documentId, content |-> <<"x">>,
                               embedding |-> embedding, metadata |-> None,
                               chunkIndex |-> 0],
                              nextUuid)
    /\ nextUuid' = nextUuid + 1
    /\ lastCall' = [op |-> "createDocumentChunk", id |-> nextUuid]
    /\ UNCHANGED <<messages, conversations, clock, started, req, res, calls,
                   connectionSettings, replitToken>>

CallSearch(queryEmbedding, limit) ==
    /\ DirectCall
    /\ lastCall' = [op |-> "searchChunksByEmbedding",
                    queryEmbedding |-> queryEmbedding, limit |-> limit,
                    result |-> searchChunksByEmbedding(documentChunks,
                                                       queryEmbedding, limit)]
    /\ UNCHANGED <<store, clock, started, req, res, calls, connectionSettings,
                   replitToken>>

StoreNext ==
    \/ \E title \in {None, Some(<<"t">>)} : CallCreateConversation(title)
    \/ \E id \in DOMAIN conversations \cup {GhostId}, data \in UpdateData :
          CallUpdateConversation(id, data)
    \/ \E e \in StoredEmbeddings, d \in {GhostId} :
          CallCreateDocumentChunk(e, d)
    \/ \E q \in QueryEmbeddings, k \in 0..MaxLimit : CallSearch(q, k)
    \/ Tick

\* the storage does not read the environment: one value of it is followed
StoreInit == Init /\ replitToken

StoreSpec == StoreInit /\ [][StoreNext]_vars

\* ------------------------------------------------------------------------
\* chunkText and cosineSimilarity called directly, one call in a behaviour.
\* chunkText is followed through its loop, one sentence at a step.
\* ------------------------------------------------------------------------
MaxSentences == 3  \* the pieces a text given to chunkText is made of, at most
MaxDim == 2        \* the largest dimension of a vector given to cosineSimilarity

\* the pieces of a text: a short and a long sentence with their terminators, a
\* very short question, and a phrase without terminator between blanks
Pieces ==
    {Rep("a", 30) \o <<".">>,
     Rep("b", 60) \o <<"!">>,
     <<"o", "k", "?">>,
     <<" ">> \o Rep("c", 45) \o <<" ">>}

\* the pieces with one space between them
RECURSIVE Join(_)
Join(ps) ==
    IF Len(ps) = 0 THEN <<>>
    ELSE IF Len(ps) = 1 THEN ps[1]
    ELSE ps[1] \o <<" ">> \o Join(Tail(ps))

ChunkTexts ==
    {Join(ps) : ps \in UNION {[1..n -> Pieces] : n \in 1..MaxSentences}}

ChunkSizes == {40, 70, DefaultChunkSize}
Overlaps == {0, 10, DefaultOverlap}

TestVectors == UNION {[1..n -> {0 - 1, 0, 1}] : n \in 0..MaxDim}

NoCallYet == lastCall.op = "none"
InChunkLoop == lastCall.op = "chunkText" /\ lastCall.pc = "loop"

\* chunkText is entered: the text is split, the locals are initialised
CallChunkText(text, chunkSize, overlap) ==
    /\ NoCallYet
    /\ lastCall' = [op |-> "chunkText", pc |-> "loop", text |-> text,
                    chunkSize |-> chunkSize, overlap |-> overlap,
                    sentences |-> SplitSentences(text), i |-> 1,
                    st |-> NoChunks, result |-> <<>>]
    /\ UNCHANGED <<store, clock, started, req, res, calls, storeCalls,
                   connectionSettings, replitToken>>

\* one iteration of the loop
ChunkSentence ==
    /\ InChunkLoop
    /\ lastCall.i <= Len(lastCall.sentences)
    /\ lastCall' = [lastCall EXCEPT
                      !.i = @ + 1,
                      !.st = ChunkIteration(@, lastCall.sentences[lastCall.i],
                                            lastCall.chunkSize,
                                            lastCall.overlap)]
    /\ UNCHANGED <<store, clock, started, req, res, calls, storeCalls,
                   connectionSettings, replitToken>>

\* the loop is over: chunkText returns
ChunkReturns ==
    /\ InChunkLoop
    /\ lastCall.i > Len(lastCall.sentences)
    /\ lastCall' = [lastCall EXCEPT !.pc = "returned",
                                    !.result = ChunkReturn(lastCall.st)]
    /\ UNCHANGED <<store, clock, started, req, res, calls, storeCalls,
                   connectionSettings, replitToken>>

CallCosineSimilarity(a, b) ==
    /\ NoCallYet
    /\ lastCall' = [op |-> "cosineSimilarity", a |-> a, b |-> b,
                    result |-> cosineSimilarity(a, b)]
    /\ UNCHANGED <<store, clock, started, req, res, calls, storeCalls,
                   connectionSettings, replitToken>>

PureNext ==
    \/ \E text \in ChunkTexts, chunkSize \in ChunkSizes, overlap \in Overlaps :
          CallChunkText(text, chunkSize, overlap)
    \/ ChunkSentence
    \/ ChunkReturns
    \/ \E a \in TestVectors, b \in TestVectors : CallCosineSimilarity(a, b)

\* the two functions do not read the environment: one value of it is followed
PureInit == Init /\ replitToken

PureSpec == PureInit /\ [][PureNext]_vars

\* ------------------------------------------------------------------------
\* Properties of the HTTP layer (Spec)
\* ------------------------------------------------------------------------
IsStream(r) == req[r].kind = "stream"
IsChat(r) == req[r].kind = "chat"
Validated(r) == req[r].kind \in {"chat", "stream", "process"} /\ res[r].status # 400
Frames(r) == res[r].frames
LastFrame(r) == res[r].frames[Len(res[r].frames)]
FramesOfType(r, types) == {i \in 1..Len(Frames(r)) : Frames(r)[i].type \in types}

\* C1: queryRAGStream yields the citations event first and once, with one
\* citation per chunk retrieved, and only token events after it; on
\* /api/chat/stream the init frame is frame 1 of every stream in which the
\* orchestrator produced an event, no other frame is an init frame, it carries
\* the citations the handler keeps, and a token frame only follows it.  (A
\* stream whose embedding call failed holds the error frame alone.)
C1_CitationsFirst ==
    /\ \A e \in Vectors :
          LET relevantChunks ==
                searchChunksByEmbedding(documentChunks, e, DefaultLimit)
              events == StreamHead(relevantChunks)
          IN  /\ events[1].type = "citations"
              /\ Len(events[1].data) = Len(relevantChunks)
              /\ \A i \in 2..Len(events) : events[i].type = "token"
    /\ \A r \in Requests :
          IsStream(r) =>
             /\ \A i \in 1..Len(Frames(r)) :
                   Frames(r)[i].type = "init"
                      <=> (i = 1 /\ Frames(r)[1].type # "error")
             /\ req[r].pc = "streaming" => Frames(r) # <<>>
             /\ FramesOfType(r, {"token", "done"}) # {} =>
                   /\ Frames(r)[1].type = "init"
                   /\ Frames(r)[1].citations = req[r].citations
                   /\ Frames(r)[1].conversationId = req[r].convId

\* C1 witness: a finished stream that matched one indexed chunk: an init
\* frame with one citation, then token frames, then the done frame
C1_Witness ==
    \E r \in Requests :
       /\ IsStream(r) /\ res[r].ended /\ Len(Frames(r)) >= 4
       /\ Frames(r)[1].type = "init" /\ Len(Frames(r)[1].citations) = 1
       /\ Frames(r)[2].type = "token" /\ Frames(r)[3].type = "token"
       /\ LastFrame(r).type = "done"

AssistantMessages == {i \in 1..Len(messages) : messages[i].role = "assistant"}

\* C2: a validated stream request has no terminal frame while it is served
\* and exactly one, its last frame, once it is ended: done, naming the
\* assistant message stored for it, or error; the assistant messages stored
\* are as many as the done frames and the 200 answers of /api/chat, so a
\* stream that failed stored none.
C2_OneTerminalFrame ==
    /\ \A r \in Requests :
          IsStream(r) /\ Validated(r) =>
             /\ res[r].ended <=> req[r].pc = "done"
             /\ IF res[r].ended
                THEN FramesOfType(r, {"done", "error"}) = {Len(Frames(r))}
                ELSE FramesOfType(r, {"done", "error"}) = {}
             /\ (res[r].ended /\ LastFrame(r).type = "done") =>
                   \E i \in AssistantMessages :
                      /\ messages[i].id = LastFrame(r).messageId
                      /\ messages[i].conversationId = req[r].convId
    /\ Cardinality(AssistantMessages)
         = Cardinality({r \in Requests : IsStream(r) /\ FramesOfType(r, {"done"}) # {}})
            + Cardinality({r \in Requests : IsChat(r) /\ res[r].status = 200})

\* C2 witness: a stream that failed in the middle of the completion: the init
\* frame, a token frame, then the error frame, and the response ended
C2_Witness ==
    \E r \in Requests :
       /\ IsStream(r) /\ res[r].ended /\ Len(Frames(r)) = 3
       /\ Frames(r)[1].type = "init" /\ Frames(r)[2].type = "token"
       /\ Frames(r)[3].type = "error"

NoneIndexed == \A i \in 1..Len(documentChunks) :
                  documentChunks[i].embedding \in {None, Some(<<>>)}

\* C3: while no chunk is indexed, every answer of /api/chat is the fallback
\* message with no citation, every stream past its embedding call holds an
\* init frame with no citation, one token frame per character of the fallback
\* message and the done frame, and no request has called the completion
\* provider.
C3_Fallback ==
    NoneIndexed =>
       \A r \in Requests :
          /\ calls[r].completion = 0
          /\ (IsChat(r) /\ res[r].status = 200) =>
                /\ res[r].body[1].content = FallbackMessage
                /\ res[r].body[1].citations = <<>>
          /\ (IsStream(r) /\ Frames(r) # <<>> /\ Frames(r)[1].type # "error") =>
                /\ Len(Frames(r)) = Len(FallbackMessage) + 2
                /\ Frames(r)[1].type = "init" /\ Frames(r)[1].citations = <<>>
                /\ \A i \in 1..Len(FallbackMessage) :
                      /\ Frames(r)[i + 1].type = "token"
                      /\ Frames(r)[i + 1].content = <<FallbackMessage[i]>>
                /\ LastFrame(r).type = "done"
                /\ req[r].fullContent = FallbackMessage

\* C3 witness: with nothing indexed, a chat answered and a stream finished
C3_Witness ==
    /\ documentChunks = <<>>
    /\ \E r1, r2 \in Requests :
          /\ IsChat(r1) /\ res[r1].status = 200
          /\ IsStream(r2) /\ res[r2].ended /\ Frames(r2) # <<>>
          /\ LastFrame(r2).type = "done"

OmitsConversationId(r) == req[r].body # None /\ req[r].body[1].conversationId = None

\* the store after a step holds one message more, the last one
StoresOneMessage(role, convId) ==
    /\ Len(messages') = Len(messages) + 1
    /\ SubSeq(messages', 1, Len(messages)) = messages
    /\ messages'[Len(messages')].role = role
    /\ messages'[Len(messages')].conversationId = convId

\* the step stores one message of request r, a user message under its
\* conversation, behind the messages stored before
StoresUserMessage(r) ==
    /\ SubSeq(messages', 1, Len(messages)) = messages
    /\ Cardinality({i \in (Len(messages) + 1)..Len(messages') :
                       messages'[i].conversationId = req[r].convId}) = 1
    /\ \E i \in (Len(messages) + 1)..Len(messages') :
          messages'[i] = [id |-> messages'[i].id,
                          conversationId |-> req[r].convId,
                          role |-> "user",
                          content |-> req[r].body[1].message[1],
                          citations |-> None,
                          timestamp |-> messages'[i].timestamp]

\* what a step of chat request r that has no conversationId in its body does
C4_Step(r) ==
    /\ (req[r].pc = "idle" /\ req'[r].kind = "chat"
          /\ req'[r].pc = "conversation"
          /\ req'[r].body[1].conversationId = None) =>
          /\ req'[r].convId \notin DOMAIN conversations
          /\ DOMAIN conversations' = DOMAIN conversations \cup {req'[r].convId}
          /\ conversations'[req'[r].convId].id = req'[r].convId
          /\ \A k \in DOMAIN conversations : conversations'[k] = conversations[k]
          /\ messages' = messages
    /\ (IsChat(r) /\ OmitsConversationId(r) /\ req[r].pc = "conversation"
          /\ req'[r] # req[r]) =>
          /\ req'[r] = [req[r] EXCEPT !.pc = "embedding"]
          /\ conversations' = conversations
          /\ StoresUserMessage(r)
    /\ (IsChat(r) /\ OmitsConversationId(r) /\ res[r].status = 0
          /\ res'[r].status = 200) =>
          /\ conversations' = conversations
          /\ StoresOneMessage("assistant", req[r].convId)
          /\ messages'[Len(messages')].id = res'[r].body[1].messageId
          /\ res'[r].body[1].conversationId = req[r].convId
    /\ (IsChat(r) /\ OmitsConversationId(r) /\ req[r].pc # "conversation"
          /\ req'[r] # req[r] /\ res'[r].status # 200) =>
          /\ conversations' = conversations
          /\ messages' = messages

\* C4: a /api/chat request without conversationId creates one conversation,
\* under the id it goes on with, when it arrives, and stores one user message
\* under that id when it goes on after `await storage.createConversation`;
\* when it is answered 200 it stores one assistant message under that id and
\* returns that id and the message's id; no other step of the request changes
\* the conversations or the messages.
C4_NewConversation == [][\A r \in Requests : C4_Step(r)]_vars

\* C4 witness: a chat request without conversationId answered 200 with an
\* answer of the completion provider
C4_Witness ==
    \E r \in Requests :
       /\ IsChat(r) /\ OmitsConversationId(r) /\ res[r].status = 200
       /\ calls[r].completion = 1
       /\ res[r].body[1].conversationId \in DOMAIN conversations

\* C5, as claimed: the conversationId of every stored message is the id of a
\* conversation in the store.  The handlers store a message under whatever
\* conversationId the body carries, so an unknown id refutes it.
C5_MessagesBelong ==
    \A i \in 1..Len(messages) :
       messages[i].conversationId \in DOMAIN conversations

RECURSIVE ChunksProcessed(_)
\* the chunksProcessed of the successful process requests among 1..n, summed
ChunksProcessed(n) ==
    IF n = 0 THEN 0
    ELSE ChunksProcessed(n - 1)
           + (IF req[n].kind = "process" /\ res[n].status = 200
              THEN res[n].body[1].chunksProcessed ELSE 0)

\* the document ids the successful process requests returned for documents
\* that gave a chunk
DocumentsIndexed ==
    {res[r].body[1].documentId :
        r \in {q \in Requests : /\ req[q].kind = "process" /\ res[q].status = 200
                                /\ res[q].body[1].chunksProcessed > 0}}

\* C8: getIndexStats reports as totalChunks the chunks the successful
\* indexDocument calls stored, and as uniqueDocuments the number of their
\* document ids; one successful call of 3 chunks alone gives {3, 1}.
C8_IndexStats ==
    /\ getIndexStats(documentChunks) =
          [totalChunks |-> ChunksProcessed(MaxReq),
           uniqueDocuments |-> Cardinality(DocumentsIndexed)]
    /\ (Cardinality(DocumentsIndexed) = 1 /\ ChunksProcessed(MaxReq) = 3) =>
          getIndexStats(documentChunks)
             = [totalChunks |-> 3, uniqueDocuments |-> 1]

\* C8 witness: a document of 3 chunks was indexed into the empty store and
\* /api/stats then answered {totalChunks: 3, uniqueDocuments: 1}
C8_Witness ==
    \E r1, r2 \in Requests :
       /\ req[r1].kind = "process" /\ res[r1].status = 200
       /\ res[r1].body[1].chunksProcessed = 3
       /\ req[r2].kind = "stats"
       /\ res[r2].body[1] = [totalChunks |-> 3, uniqueDocuments |-> 1]

InvalidChatBody(body) == body.message = None \/ body.message[1] = <<>>
InvalidProcessBody(body) ==
    \/ body.fileId = None \/ body.fileId[1] = ""
    \/ body.fileName = None \/ body.fileName[1] = ""

\* request r arrives in this step with a body that fails validation
ArrivesInvalid(r) ==
    /\ req[r].pc = "idle" /\ req'[r].pc # "idle"
    /\ \/ req'[r].kind \in {"chat", "stream"} /\ InvalidChatBody(req'[r].body[1])
       \/ req'[r].kind = "process" /\ InvalidProcessBody(req'[r].body[1])

C10_Step(r) ==
    /\ ArrivesInvalid(r) =>
          /\ res'[r].status = 400 /\ res'[r].ended /\ res'[r].frames = <<>>
          /\ req'[r].pc = "done"
          /\ UNCHANGED <<messages, conversations, documentChunks, nextUuid>>
          /\ calls' = calls
    /\ res[r].status = 400 =>
          /\ req'[r] = req[r] /\ res'[r] = res[r]
          /\ calls'[r] = NoCalls

\* C10: a chat, stream or process request whose body fails validation is
\* answered 400 in the step in which it arrives; that step leaves the three
\* stores unchanged and issues no provider or drive call, and the request
\* takes no further step.
C10_ValidationRejects == [][\A r \in Requests : C10_Step(r)]_vars

\* C10 witness: a stream request with an empty message and a process request
\* with an empty fileName were both answered 400
C10_Witness ==
    \E r1, r2 \in Requests :
       /\ IsStream(r1) /\ req[r1].body[1].message = Some(<<>>)
       /\ res[r1].status = 400
       /\ req[r2].kind = "process" /\ req[r2].body[1].fileName = Some("")
       /\ res[r2].status = 400
       /\ messages = <<>> /\ documentChunks = <<>>

\* ------------------------------------------------------------------------
\* Properties of MemStorage (StoreSpec)
\* ------------------------------------------------------------------------
Stored(chunk) == \E j \in 1..Len(documentChunks) : documentChunks[j] = chunk

SearchResultOk(result, limit) ==
    /\ Len(result) <= limit
    /\ \A i \in 1..Len(result) :
          /\ Stored(result[i])
          /\ result[i].embedding # None
          /\ Len(result[i].embedding[1]) > 0

\* C6: a direct searchChunksByEmbedding, whatever its query and its limit,
\* returns at most limit chunks, each of them a stored chunk whose embedding
\* is neither null nor empty.
C6_SearchBounded ==
    lastCall.op = "searchChunksByEmbedding" =>
       /\ lastCall.result = searchChunksByEmbedding(documentChunks,
                                                    lastCall.queryEmbedding,
                                                    lastCall.limit)
       /\ SearchResultOk(lastCall.result, lastCall.limit)

\* C6 witness: a search with limit 1 returned one chunk of a store that holds
\* two chunks with an embedding and one without or with an empty one
C6_Witness ==
    /\ lastCall.op = "searchChunksByEmbedding"
    /\ lastCall.limit = 1 /\ Len(lastCall.result) = 1
    /\ Len(documentChunks) = 3
    /\ \E i \in 1..3 : documentChunks[i].embedding = Some(<<>>)
    /\ \E i, j \in 1..3 :
          /\ i # j
          /\ documentChunks[i].embedding \notin {None, Some(<<>>)}
          /\ documentChunks[j].embedding \notin {None, Some(<<>>)}

SimilarityTo(q, chunk) == cosineSimilarity(q, chunk.embedding[1])

\* C7: the chunks a direct searchChunksByEmbedding returns are in descending
\* order of similarity to the query, and no stored chunk with a non-empty
\* embedding that is left out is more similar to the query than a returned
\* one.
C7_SearchSorted ==
    lastCall.op = "searchChunksByEmbedding" =>
       LET q == lastCall.queryEmbedding
           result == lastCall.result
       IN  /\ \A i \in 1..(Len(result) - 1) :
                 ~SimGreater(SimilarityTo(q, result[i + 1]),
                             SimilarityTo(q, result[i]))
           /\ \A j \in 1..Len(documentChunks) :
                 (/\ documentChunks[j].embedding # None
                  /\ Len(documentChunks[j].embedding[1]) > 0
                  /\ \A i \in 1..Len(result) : result[i] # documentChunks[j])
                 => \A i \in 1..Len(result) :
                       ~SimGreater(SimilarityTo(q, documentChunks[j]),
                                   SimilarityTo(q, result[i]))

\* C7 witness: a search for <<1, 1>> returned two chunks and left out a
\* stored chunk less similar; the first, of embedding <<3, 3>>, was stored
\* after the second, of embedding <<1, 1>>: both lie in the direction of the
\* query, and the double of the first is 1, that of the second below 1
C7_Witness ==
    /\ lastCall.op = "searchChunksByEmbedding"
    /\ lastCall.queryEmbedding = <<1, 1>>
    /\ Len(lastCall.result) = 2
    /\ lastCall.result[1].embedding = Some(<<3, 3>>)
    /\ lastCall.result[2].embedding = Some(<<1, 1>>)
    /\ lastCall.result[1].id > lastCall.result[2].id
    /\ SimGreater(SimilarityTo(lastCall.queryEmbedding, lastCall.result[1]),
                  SimilarityTo(lastCall.queryEmbedding, lastCall.result[2]))
    /\ \E j \in 1..Len(documentChunks) :
          /\ documentChunks[j].embedding # None
          /\ Len(documentChunks[j].embedding[1]) > 0
          /\ SimGreater(SimilarityTo(lastCall.queryEmbedding, lastCall.result[2]),
                        SimilarityTo(lastCall.queryEmbedding, documentChunks[j]))

\* C9: a direct updateConversation on an id that is not a key of the
\* conversation store throws and leaves the store as it was.
C9_UpdateAbsentFails ==
    [][(/\ storeCalls' # storeCalls
        /\ lastCall'.op = "updateConversation"
        /\ lastCall'.id \notin DOMAIN conversations)
       => (lastCall'.threw /\ conversations' = conversations)]_vars

\* C9 witness: updateConversation was called on an unknown id while the store
\* held a conversation, and threw
C9_Witness ==
    /\ lastCall.op = "updateConversation" /\ lastCall.threw
    /\ lastCall.id \notin DOMAIN conversations
    /\ DOMAIN conversations # {}

\* ------------------------------------------------------------------------
\* Properties of chunkText and cosineSimilarity (PureSpec)
\* ------------------------------------------------------------------------
Returned == lastCall.op = "chunkText" /\ lastCall.pc = "returned"

NonEmptyText(t) == t # <<>>
LongText(t) == Len(t) > MinChunkLength

\* the non-empty trimmed sentences of a text, in input order
TrimmedSentences(text) ==
    LET pieces == SplitSentences(text)
    IN  SelectSeq([i \in 1..Len(pieces) |-> Trim(pieces[i])], NonEmptyText)

\* s occurs in t
Occurs(s, t) ==
    \E i \in 0..(Len(t) - Len(s)) : SubSeq(t, i + 1, i + Len(s)) = s

\* the sentences from the i-th on occur, in order, in the chunks from the
\* j-th on (each sentence is sought in the first chunk that can hold it)
RECURSIVE InOrder(_, _, _, _)
InOrder(sentences, i, chunks, j) ==
    IF i > Len(sentences) THEN TRUE
    ELSE LET holds == {k \in j..Len(chunks) : Occurs(sentences[i], chunks[k])}
         IN  /\ holds # {}
             /\ InOrder(sentences, i + 1, chunks,
                        CHOOSE k \in holds : \A m \in holds : k <= m)

\* C11: a text shorter than maxChunkSize gives one chunk, the trimmed text,
\* when the trimmed text is longer than 50 characters, and no chunk otherwise.
C11_ShortTextOneChunk ==
    (Returned /\ Len(lastCall.text) < lastCall.chunkSize) =>
        lastCall.result =
            IF Len(Trim(lastCall.text)) > MinChunkLength
            THEN <<Trim(lastCall.text)>> ELSE <<>>

\* C12 as stated: every non-empty trimmed sentence of the text occurs, in
\* input order, in a returned chunk.
C12_NoSentenceDropped ==
    Returned => InOrder(TrimmedSentences(lastCall.text), 1, lastCall.result, 1)

\* C12 amended: a sentence is lost only with a chunk of at most 50 characters
\* that is discarded: every non-empty trimmed sentence occurs, in input
\* order, in a chunk chunkText closed, and every such sentence of more than
\* 50 characters occurs, in input order, in a returned chunk.
C12_SentencesKept ==
    Returned =>
        /\ InOrder(TrimmedSentences(lastCall.text), 1,
                   ClosedChunks(lastCall.st), 1)
        /\ InOrder(SelectSeq(TrimmedSentences(lastCall.text), LongText), 1,
                   lastCall.result, 1)

\* C12 witness: a call that returned two chunks, each holding a sentence of
\* more than 50 characters, and discarded the chunk of a short sentence
C12_Witness ==
    /\ Returned
    /\ Len(lastCall.result) = 2
    /\ Len(ClosedChunks(lastCall.st)) = 3
    /\ Len(SelectSeq(TrimmedSentences(lastCall.text), LongText)) = 2
    /\ Len(TrimmedSentences(lastCall.text)) = 3

AllZero(v) == \A i \in 1..Len(v) : v[i] = 0
IsZero(similarity) == similarity.dotProduct = 0

\* C13: cosineSimilarity returns 0 when the vectors differ in length, and
\* when one of them has the norm zero (no component, or every component 0).
C13_ZeroSimilarity ==
    (/\ lastCall.op = "cosineSimilarity"
     /\ \/ Len(lastCall.a) # Len(lastCall.b)
        \/ AllZero(lastCall.a)
        \/ AllZero(lastCall.b))
      => IsZero(lastCall.result)

\* C13 witness: a call with two vectors of different lengths, neither of them
\* zero, that returned 0
C13_Witness ==
    /\ lastCall.op = "cosineSimilarity"
    /\ Len(lastCall.a) # Len(lastCall.b)
    /\ ~AllZero(lastCall.a) /\ ~AllZero(lastCall.b)
    /\ lastCall.a[1] # 0 /\ lastCall.b[1] # 0
    /\ IsZero(lastCall.result)

\* C15: every returned chunk is at most maxChunkSize long, except a chunk
\* that is one sentence which alone is longer than maxChunkSize.
C15_BoundedChunks ==
    Returned =>
        \A k \in 1..Len(lastCall.result) :
            \/ Len(lastCall.result[k]) <= lastCall.chunkSize
            \/ \E i \in 1..Len(TrimmedSentences(lastCall.text)) :
                  lastCall.result[k] = TrimmedSentences(lastCall.text)[i]

\* the last n characters of s (all of s when it has fewer, none when n = 0)
Trailing(s, n) == SubSeq(s, Len(s) - Min(n, Len(s)) + 1, Len(s))

\* C16: when the next sentence does not fit into a non-empty buffer, the
\* buffer is closed as a chunk and the next buffer is the last `overlap`
\* characters of the closed buffer, a space, and the sentence; with overlap 0
\* it holds nothing of the closed buffer.
C16_Step ==
    LET buffer == lastCall.st.currentChunk
        trimmedSentence == Trim(lastCall.sentences[lastCall.i])
    IN  (/\ InChunkLoop
         /\ lastCall'.op = "chunkText" /\ lastCall'.i = lastCall.i + 1
         /\ buffer # <<>> /\ trimmedSentence # <<>>
         /\ Len(buffer) + Len(trimmedSentence) > lastCall.chunkSize)
          => /\ lastCall'.st.chunks = Append(lastCall.st.chunks, Trim(buffer))
             /\ lastCall'.st.currentChunk =
                   Trailing(buffer, lastCall.overlap)
                      \o <<" ">> \o trimmedSentence

C16_OverlapSeed == [][C16_Step]_vars

\* ------------------------------------------------------------------------
\* Properties of the chat handlers and of indexing (Spec)
\* ------------------------------------------------------------------------
\* the contents of the token frames lo..hi, in order (computed by halving)
RECURSIVE FrameText(_, _, _)
FrameText(frames, lo, hi) ==
    IF lo > hi THEN <<>>
    ELSE IF lo = hi
    THEN IF frames[lo].type = "token" THEN frames[lo].content ELSE <<>>
    ELSE LET mid == (lo + hi) \div 2
         IN  FrameText(frames, lo, mid) \o FrameText(frames, mid + 1, hi)

EndsWithDone(r) ==
    IsStream(r) /\ Frames(r) # <<>> /\ LastFrame(r).type = "done"

\* C17: for a stream that ends with a done frame, exactly one message has
\* the messageId of the done frame; it is an assistant message, its content
\* is the contents of the token frames of the response in order, and its
\* citations are those of the init frame.
C17_StoredAsStreamed ==
    \A r \in Requests :
       EndsWithDone(r) =>
          LET stored == {i \in 1..Len(messages) :
                            messages[i].id = LastFrame(r).messageId}
          IN  /\ Cardinality(stored) = 1
              /\ Frames(r)[1].type = "init"
              /\ \A i \in stored :
                    /\ messages[i].role = "assistant"
                    /\ messages[i].content
                         = FrameText(Frames(r), 1, Len(Frames(r)))
                    /\ messages[i].citations = Some(Frames(r)[1].citations)

\* C17 witness: a stream with one citation and the deltas "bc" and "a" ended
\* with a done frame, and the message stored reads "bca"
C17_Witness ==
    \E r \in Requests :
       /\ EndsWithDone(r) /\ Len(Frames(r)) = 4
       /\ Len(Frames(r)[1].citations) = 1
       /\ Frames(r)[2].content = <<"b", "c">> /\ Frames(r)[3].content = <<"a">>
       /\ \E i \in 1..Len(messages) :
             /\ messages[i].id = LastFrame(r).messageId
             /\ messages[i].content = <<"b", "c", "a">>

IsChatKind(r) == IsChat(r) \/ IsStream(r)
UserMessages == {i \in 1..Len(messages) : messages[i].role = "user"}
Answered(r) == (IsChat(r) /\ res[r].status = 200) \/ EndsWithDone(r)
Failed(r) ==
    \/ IsChat(r) /\ res[r].status = 500
    \/ IsStream(r) /\ Frames(r) # <<>> /\ LastFrame(r).type = "error"

\* C18: a validated chat request that is over without an answer failed: it
\* answered 500 on /api/chat, or wrote the error frame last on
\* /api/chat/stream; its user message is stored under its conversation, the
\* conversation created for it (no id supplied) is stored, and the store holds
\* one user message per validated chat request that is past its
\* `await storage.createConversation` and one assistant message per answered
\* one, so none for a failed request.
C18_FailureKeepsUserMessage ==
    /\ \A r \in Requests :
          (IsChatKind(r) /\ Validated(r) /\ req[r].pc = "done" /\ ~Answered(r)) =>
             Failed(r)
    /\ \A r \in Requests :
          Failed(r) =>
             /\ res[r].ended /\ ~Answered(r)
             /\ \E i \in UserMessages :
                   /\ messages[i].conversationId = req[r].convId
                   /\ messages[i].content = req[r].body[1].message[1]
             /\ req[r].body[1].conversationId \in {None, Some(EmptyId)} =>
                   /\ req[r].convId \in DOMAIN conversations
                   /\ conversations[req[r].convId].id = req[r].convId
    /\ Cardinality(UserMessages)
         = Cardinality({r \in Requests : /\ IsChatKind(r) /\ Validated(r)
                                         /\ req[r].pc # "conversation"})
    /\ Cardinality(AssistantMessages)
         = Cardinality({r \in Requests : Answered(r)})

\* C18 witness: a chat request answered 500 and a stream ended with the error
\* frame, both without conversationId: two conversations and two user
\* messages are stored, and no assistant message
C18_Witness ==
    \E r1, r2 \in Requests :
       /\ IsChat(r1) /\ res[r1].status = 500
       /\ IsStream(r2) /\ Failed(r2)
       /\ req[r1].body[1].conversationId = None
       /\ req[r2].body[1].conversationId = None
       /\ Cardinality(DOMAIN conversations) = 2
       /\ Cardinality(UserMessages) = 2
       /\ AssistantMessages = {}

\* the chunks stored of document d
ChunksOf(d) == {i \in 1..Len(documentChunks) : documentChunks[i].documentId = d}

\* the document ids of the process requests that answered 200
DocumentsAnswered ==
    {res[r].body[1].documentId :
        r \in {q \in Requests : req[q].kind = "process" /\ res[q].status = 200}}

\* C19: in every state a document has all of its chunks in the store or
\* none: the chunks of a document id are as many as their totalChunks says
\* and their chunkIndex values are 0..totalChunks-1; a stored chunk belongs
\* to an indexDocument call that succeeded, so a call that failed or is still
\* under way has stored none.
C19_AllOrNothing ==
    /\ \A i \in 1..Len(documentChunks) :
          LET d == documentChunks[i].documentId
              totalChunks == documentChunks[i].metadata[1].totalChunks
          IN  /\ Cardinality(ChunksOf(d)) = totalChunks
              /\ {documentChunks[j].chunkIndex : j \in ChunksOf(d)}
                    = 0..(totalChunks - 1)
              /\ d \in DocumentsAnswered
    /\ \A r \in Requests :
          req[r].kind = "process" /\ res[r].status = 200 =>
             Cardinality(ChunksOf(res[r].body[1].documentId))
                = res[r].body[1].chunksProcessed
    /\ \A r \in Requests :
          req[r].kind = "process" /\ req[r].pc = "embeddings" =>
             ChunksOf(req[r].processed[1].documentId) = {}

\* C19 witness: one indexDocument call stored its 3 chunks and another, of
\* the same file, failed: the store holds the 3 chunks of the first alone
C19_Witness ==
    \E r1, r2 \in Requests :
       /\ req[r1].kind = "process" /\ res[r1].status = 200
       /\ res[r1].body[1].chunksProcessed = 3
       /\ req[r2].kind = "process" /\ res[r2].status = 500
       /\ req[r2].body = req[r1].body
       /\ Len(documentChunks) = 3
       /\ \A i \in 1..3 :
             documentChunks[i].documentId = res[r1].body[1].documentId

\* C14: apart from the three maps of the store, no variable written while
\* one request is served is read while another is served: the
\* connectionSettings a request reads on its way to a drive access token were
\* assigned while that same request was served.
C14_NoSharedState ==
    \A r \in Requests : req[r].settingsFrom \in {0, r}

\* ------------------------------------------------------------------------
\* A further property of MemStorage (StoreSpec)
\* ------------------------------------------------------------------------
\* C20: every conversation is held under the key that is its id, so what
\* getConversation(id) returns, if anything, has the id asked for.
C20_KeyIsId ==
    \A k \in DOMAIN conversations \cup {GhostId} :
       getConversation(conversations, k) # None =>
          getConversation(conversations, k)[1].id = k

====
